---- MODULE Spec2Model ----
(***************************************************************************)
(* Space Architects: the habitat editor (HabitatEditor), the room catalog  *)
(* and geometry (RoomsManager), the real-time validation (ValidationSystem)*)
(* and the final scoring (ScoringSystem).                                  *)
(*                                                                         *)
(* Units.  Lengths are in canvas pixels at canvasScale 40, i.e. 1 px =     *)
(* 0.025 m, so that the pixel coordinates of a drop, the 0.5 m grid and    *)
(* the catalog dimensions (multiples of 0.1 m) are all integers.  Volumes  *)
(* are in 0.001 m^3, areas in 0.01 m^2.  A distance is carried as its      *)
(* square (px^2) and compared with the square of the threshold.  Scores    *)
(* that the code computes as floating-point quotients are exact rationals  *)
(* [n, d] here.                                                            *)
(***************************************************************************)
EXTENDS Integers, Sequences, FiniteSets, TLC

VARIABLES
    placedRooms,          \* editorState.placedRooms
    placedRoomsContainer, \* children of the #placed-rooms element
    canvasInfo,           \* text of #rooms-count and #space-used
    missionConfig,        \* editorState.missionConfig
    moduleDimensions,     \* editorState.moduleDimensions
    currentValidation,    \* ValidationSystem's currentValidation
    nextRoomId,           \* freshness of generateRoomId
    lastOp,               \* the handler that ran last and what it reported
    now,                  \* Date.now() of the page, in clock ticks
    appState,             \* app.js: the current page, the active pages, the history
    structureState,       \* structure.js: the selection and the Continue control
    configuration,        \* configuration.js: currentConfig, storage, the retry loop
    configState           \* the module selection of the configuration page

vars == <<placedRooms, placedRoomsContainer, canvasInfo, missionConfig,
          moduleDimensions, currentValidation, nextRoomId, lastOp, now,
          appState, structureState, configuration, configState>>

\* the state of the pages outside the editor
pageVars == <<appState, structureState, configuration, configState>>

\* the state of the editor page
editorVars == <<placedRooms, placedRoomsContainer, canvasInfo, missionConfig,
                moduleDimensions, currentValidation, nextRoomId, now>>

----------------------------------------------------------------------------
(* Bounds of the model *)

MaxRoomIds == 2
\* pushState entries a session is followed for
MaxHistory == 4
\* visits of the structure page, each adding its listeners again
MaxListeners == 2
\* calls of initializeConfigPage (configuration.js) that are followed
MaxCalls == 3
\* calls of initializeConfigPage that add a click listener to the document
MaxClickListeners == 2

\* the clock of the page runs from 0 to MaxNow ticks
MaxNow == 1

----------------------------------------------------------------------------
(* Numbers *)

canvasScale == 40

\* a length given in tenths of a metre, in pixels
Dm(t) == t * 4

Min(a, b) == IF a <= b THEN a ELSE b
Max(a, b) == IF a >= b THEN a ELSE b

\* Math.round of the rational n/d, d > 0: floor(n/d + 1/2)
MathRound(n, d) == (2 * n + d) \div (2 * d)

\* Math.ceil of the rational n/d, d > 0
MathCeil(n, d) == -((-n) \div d)

RECURSIVE Gcd(_, _)
Gcd(a, b) == IF b = 0 THEN a ELSE Gcd(b, a % b)

\* the quotients of a division by zero: 0/0, a positive and a negative number
\* over 0
NaN == [n |-> 0, d |-> 0]
Infinity == [n |-> 1, d |-> 0]
MinusInfinity == [n |-> -1, d |-> 0]

\* the number n / d, d >= 0: a rational in lowest terms, or with d = 0 the
\* quotient that the division by zero gives
Rat(n, d) ==
    IF d = 0
    THEN (IF n > 0 THEN Infinity ELSE IF n < 0 THEN MinusInfinity ELSE NaN)
    ELSE LET g == Gcd(IF n < 0 THEN -n ELSE n, d)
         IN [n |-> n \div g, d |-> d \div g]

isNaN(a) == a.n = 0 /\ a.d = 0
isFinite(a) == a.d # 0

\* +, *, ===, <=, <, Math.min and Math.max on numbers; a comparison with NaN
\* is false, and Math.min and Math.max of NaN are NaN
RatAdd(a, b) ==
    IF a.d = 0 /\ b.d = 0 THEN (IF a.n = b.n THEN a ELSE NaN)
    ELSE Rat(a.n * b.d + b.n * a.d, a.d * b.d)
RatMul(a, b) == Rat(a.n * b.n, a.d * b.d)
RatEq(a, b) ==
    /\ ~isNaN(a) /\ ~isNaN(b)
    /\ IF a.d = 0 \/ b.d = 0 THEN a = b ELSE a.n * b.d = b.n * a.d
RatLeq(a, b) ==
    /\ ~isNaN(a) /\ ~isNaN(b)
    /\ IF a.d = 0 /\ b.d = 0 THEN a.n <= b.n ELSE a.n * b.d <= b.n * a.d
RatLt(a, b) ==
    /\ ~isNaN(a) /\ ~isNaN(b)
    /\ IF a.d = 0 /\ b.d = 0 THEN a.n < b.n ELSE a.n * b.d < b.n * a.d
RatMin(a, b) == IF isNaN(a) \/ isNaN(b) THEN NaN ELSE IF RatLeq(a, b) THEN a ELSE b
RatMax(a, b) == IF isNaN(a) \/ isNaN(b) THEN NaN ELSE IF RatLeq(a, b) THEN b ELSE a

\* Math.round of a number: NaN and the infinities are kept
MathRoundNum(a) == IF a.d = 0 THEN a ELSE Rat(MathRound(a.n, a.d), 1)

\* floor of the square root of n, by bisection on lo..hi
RECURSIVE SqrtBetween(_, _, _)
SqrtBetween(n, lo, hi) ==
    IF lo >= hi THEN lo
    ELSE LET mid == (lo + hi + 1) \div 2
         IN IF mid * mid <= n THEN SqrtBetween(n, mid, hi)
            ELSE SqrtBetween(n, lo, mid - 1)

MathSqrtFloor(n) == SqrtBetween(n, 0, Min(n, 46340))

RECURSIVE SeqSum(_)
SeqSum(s) == IF s = <<>> THEN 0 ELSE Head(s) + SeqSum(Tail(s))

RECURSIVE RatSum(_)
RatSum(s) == IF s = <<>> THEN Rat(0, 1) ELSE RatAdd(Head(s), RatSum(Tail(s)))

Range(s) == {s[i] : i \in DOMAIN s}

\* JavaScript values that are not numbers or records here
null == [null |-> TRUE]
undefined == [undefined |-> TRUE]
\* the outcome of a call that threw a TypeError
TypeError == [raised |-> TRUE]

----------------------------------------------------------------------------
(* RoomsManager: the catalog *)

ROOM_CATALOG ==
    [crew_quarters |->
        [id |-> "crew_quarters", category |-> "essential",
         dimensions |-> [width |-> Dm(20), length |-> Dm(25)],
         volume |-> 12500, area |-> 500,
         requirements |->
             [minDistance |-> <<<<"exercise", Dm(30)>>, <<"galley", Dm(20)>>, <<"hygiene", Dm(10)>>>>,
              maxDistance |-> <<<<"hygiene", Dm(80)>>, <<"medical", Dm(120)>>>>,
              adjacencyBonus |-> <<<<"hygiene", 10>>, <<"workstation", 5>>>>]],
     hygiene |->
        [id |-> "hygiene", category |-> "essential",
         dimensions |-> [width |-> Dm(12), length |-> Dm(12)],
         volume |-> 3600, area |-> 144,
         requirements |->
             [minDistance |-> <<<<"galley", Dm(20)>>, <<"workstation", Dm(10)>>>>,
              maxDistance |-> <<<<"crew_quarters", Dm(80)>>>>,
              adjacencyBonus |-> <<<<"crew_quarters", 15>>, <<"medical", 8>>>>]],
     galley |->
        [id |-> "galley", category |-> "essential",
         dimensions |-> [width |-> Dm(20), length |-> Dm(15)],
         volume |-> 7500, area |-> 300,
         requirements |->
             [minDistance |-> <<<<"hygiene", Dm(20)>>, <<"exercise", Dm(20)>>>>,
              maxDistance |-> <<<<"wardroom", Dm(30)>>, <<"storage", Dm(50)>>>>,
              adjacencyBonus |-> <<<<"wardroom", 20>>, <<"storage", 15>>, <<"workstation", 5>>>>]],
     diningroom |->
        [id |-> "diningroom", category |-> "essential",
         dimensions |-> [width |-> Dm(30), length |-> Dm(20)],
         volume |-> 12600, area |-> 600,
         requirements |->
             [minDistance |-> <<>>,
              maxDistance |-> <<<<"galley", Dm(30)>>, <<"crew_quarters", Dm(100)>>>>,
              adjacencyBonus |-> <<<<"galley", 25>>, <<"workstation", 10>>, <<"recreation", 15>>>>]],
     exercise |->
        [id |-> "exercise", category |-> "essential",
         dimensions |-> [width |-> Dm(30), length |-> Dm(20)],
         volume |-> 15000, area |-> 600,
         requirements |->
             [minDistance |-> <<<<"crew_quarters", Dm(30)>>, <<"medical", Dm(20)>>, <<"workstation", Dm(20)>>>>,
              maxDistance |-> <<<<"medical", Dm(80)>>, <<"hygiene", Dm(60)>>>>,
              adjacencyBonus |-> <<<<"hygiene", 12>>, <<"medical", 10>>, <<"storage", 8>>>>]],
     workstation |->
        [id |-> "workstation", category |-> "essential",
         dimensions |-> [width |-> Dm(20), length |-> Dm(15)],
         volume |-> 7500, area |-> 300,
         requirements |->
             [minDistance |-> <<<<"exercise", Dm(20)>>, <<"galley", Dm(10)>>>>,
              maxDistance |-> <<<<"storage", Dm(50)>>, <<"crew_quarters", Dm(80)>>>>,
              adjacencyBonus |-> <<<<"medical", 8>>, <<"storage", 12>>, <<"wardroom", 10>>>>]],
     medical |->
        [id |-> "medical", category |-> "essential",
         dimensions |-> [width |-> Dm(20), length |-> Dm(15)],
         volume |-> 7500, area |-> 300,
         requirements |->
             [minDistance |-> <<>>,
              maxDistance |-> <<<<"crew_quarters", Dm(120)>>, <<"exercise", Dm(80)>>, <<"workstation", Dm(100)>>>>,
              adjacencyBonus |-> <<<<"hygiene", 10>>, <<"storage", 15>>, <<"workstation", 8>>>>]],
     storage |->
        [id |-> "storage", category |-> "essential",
         dimensions |-> [width |-> Dm(40), length |-> Dm(20)],
         volume |-> 20000, area |-> 800,
         requirements |->
             [minDistance |-> <<>>,
              maxDistance |-> <<<<"galley", Dm(50)>>, <<"workstation", Dm(50)>>, <<"medical", Dm(60)>>>>,
              adjacencyBonus |-> <<<<"galley", 15>>, <<"workstation", 12>>, <<"medical", 10>>, <<"exercise", 8>>>>]],
     recreation |->
        [id |-> "recreation", category |-> "optional",
         dimensions |-> [width |-> Dm(25), length |-> Dm(25)],
         volume |-> 15625, area |-> 625,
         requirements |->
             [minDistance |-> <<<<"medical", Dm(20)>>, <<"workstation", Dm(10)>>>>,
              maxDistance |-> <<>>,
              adjacencyBonus |-> <<<<"wardroom", 15>>, <<"crew_quarters", 10>>, <<"storage", 8>>>>]],
     greenhouse |->
        [id |-> "greenhouse", category |-> "optional",
         dimensions |-> [width |-> Dm(30), length |-> Dm(25)],
         volume |-> 18750, area |-> 750,
         requirements |->
             [minDistance |-> <<<<"exercise", Dm(20)>>, <<"hygiene", Dm(20)>>>>,
              maxDistance |-> <<>>,
              adjacencyBonus |-> <<<<"workstation", 12>>, <<"galley", 10>>, <<"storage", 8>>>>]],
     airlock |->
        [id |-> "airlock", category |-> "essential",
         dimensions |-> [width |-> Dm(25), length |-> Dm(25)],
         volume |-> 15625, area |-> 625,
         requirements |->
             [minDistance |-> <<<<"crew_quarters", Dm(30)>>, <<"galley", Dm(20)>>, <<"medical", Dm(20)>>>>,
              maxDistance |-> <<<<"storage", Dm(40)>>, <<"medical", Dm(80)>>>>,
              adjacencyBonus |-> <<<<"storage", 20>>, <<"workstation", 12>>, <<"medical", 10>>>>]]]

RoomTypes == DOMAIN ROOM_CATALOG

\* ROOM_CATALOG[roomType].requirements.multipleAllowed: declared, as true,
\* for the hygiene station and the workstation and left undefined for every
\* other room type; no function of the program reads it
multipleAllowed(roomType) == roomType \in {"hygiene", "workstation"}

\* ROOM_CATALOG is an object literal: besides its own keys it answers the
\* property names it inherits from Object.prototype, each with a built-in
\* function, which has none of the properties of a room definition
ObjectPrototypeNames ==
    {"constructor", "toString", "valueOf", "hasOwnProperty", "isPrototypeOf"}
builtinFunction == [builtin |-> TRUE]

\* RoomsManager.getRoomById: ROOM_CATALOG[roomId] || null
getRoomById(roomId) ==
    IF roomId \in DOMAIN ROOM_CATALOG THEN ROOM_CATALOG[roomId]
    ELSE IF roomId \in ObjectPrototypeNames THEN builtinFunction
    ELSE null

\* a faulty overlap test: only the corner of room1 is tested against room2
checkRoomOverlapCorner(room1, room2) ==
    /\ room2.x <= room1.x /\ room1.x < room2.x + room2.width
    /\ room2.y <= room1.y /\ room1.y < room2.y + room2.length

\* a faulty overlap test: rooms that only touch count as overlapping
checkRoomOverlapTouching(room1, room2) ==
    ~(\/ room1.x + room1.width < room2.x
      \/ room2.x + room2.width < room1.x
      \/ room1.y + room1.length < room2.y
      \/ room2.y + room2.length < room1.y)

\* RoomsManager.checkRoomOverlap on {x, y, width, length}
checkRoomOverlap(room1, room2) ==
    ~(\/ room1.x + room1.width <= room2.x
      \/ room2.x + room2.width <= room1.x
      \/ room1.y + room1.length <= room2.y
      \/ room2.y + room2.length <= room1.y)

\* RoomsManager.calculateDistance; a missing position makes pos.x throw
calculateDistance(pos1, pos2) ==
    IF pos2 = undefined \/ pos1 = undefined THEN TypeError
    ELSE [raised |-> FALSE,
          sq |-> (pos2.x - pos1.x) * (pos2.x - pos1.x)
                 + (pos2.y - pos1.y) * (pos2.y - pos1.y)]

\* the property 'position' read from an Array of rooms (not from a room)
ArrayPosition(rooms) == undefined

RECURSIVE Concat(_)
Concat(ss) == IF ss = <<>> THEN <<>> ELSE Head(ss) \o Concat(Tail(ss))

\* RoomsManager.validateRoomPlacement.  Every known room type is reported
\* valid: the checks only add warnings, suggestions and score.  The name of
\* the other room type is read for each message, which throws when that type
\* is not in the catalog.
validateRoomPlacement(roomId, position, existingRooms) ==
    LET room == getRoomById(roomId)
        sq(r) == calculateDistance(position, r.position).sq
        adjacent == Dm(30)
        TooClose(entry) ==
            LET Close(r) == r.type = entry[1] /\ sq(r) < entry[2] * entry[2]
            IN [k \in DOMAIN SelectSeq(existingRooms, Close) |->
                   [message |-> "Too close to", other |-> entry[1], points |-> -5]]
        TooFar(entry) ==
            LET IsOther(r) == r.type = entry[1]
                Far(r) == sq(r) > entry[2] * entry[2]
                nearbyRooms == SelectSeq(existingRooms, IsOther)
            IN IF Len(nearbyRooms) > 0 /\ SelectSeq(nearbyRooms, Far) = nearbyRooms
               THEN << [message |-> "Too far from", other |-> entry[1], points |-> -8] >>
               ELSE <<>>
        Bonus(entry) ==
            LET Near(r) == r.type = entry[1] /\ sq(r) <= adjacent * adjacent
            IN [k \in DOMAIN SelectSeq(existingRooms, Near) |->
                   [message |-> "Great placement near", other |-> entry[1],
                    points |-> entry[2]]]
        Validation(warnings, suggestions) ==
            IF \E k \in DOMAIN (warnings \o suggestions) :
                   getRoomById((warnings \o suggestions)[k].other) = null
            THEN TypeError
            ELSE [raised |-> FALSE, valid |-> TRUE,
                  warnings |-> warnings,
                  errors |-> <<>>,
                  suggestions |-> suggestions,
                  score |-> SeqSum([k \in DOMAIN (warnings \o suggestions) |->
                                       (warnings \o suggestions)[k].points])]
    IN IF room = null
       THEN [raised |-> FALSE, valid |-> FALSE, reason |-> "Unknown room type"]
       ELSE IF room = builtinFunction
       THEN TypeError
       ELSE Validation(
                Concat([e \in DOMAIN room.requirements.minDistance |->
                           TooClose(room.requirements.minDistance[e])])
                \o Concat([e \in DOMAIN room.requirements.maxDistance |->
                              TooFar(room.requirements.maxDistance[e])]),
                Concat([e \in DOMAIN room.requirements.adjacencyBonus |->
                           Bonus(room.requirements.adjacencyBonus[e])]))

----------------------------------------------------------------------------
(* MissionConfig *)

MissionTypes == {"moon", "mars"}
CrewSizes == {2, 3, 4, 5, 6}
Durations == {7, 30, 60, 90, 180}

\* NASA_STANDARDS.environmental[..].thermalRequirement, in percent
thermalRequirement(missionType) == IF missionType = "moon" THEN 110 ELSE 105

\* the duration tier of calculateModuleDimensions
configVolumePerPerson(duration) ==
    IF duration <= 30 THEN 20
    ELSE IF duration <= 90 THEN 25
    ELSE IF duration <= 180 THEN 30
    ELSE 40

\* least v >= w with a * v^2 >= b: Math.ceil of a square root
RECURSIVE CeilSqrt(_, _, _)
CeilSqrt(w, a, b) == IF a * w * w >= b THEN w ELSE CeilSqrt(w + 1, a, b)

\* calculateModuleDimensions: with k = crewSize * volumePerPerson * thermal%,
\* baseArea = k / 175 m^2, width = ceil(10 * sqrt(baseArea / 1.5)) / 10 and
\* length = ceil(10 * 1.5 * sqrt(baseArea / 1.5)) / 10, i.e. in tenths of a
\* metre the least w with 21 w^2 >= 8 k and the least l with 7 l^2 >= 6 k.
calculateModuleDimensions(config) ==
    LET k == config.crewSize * configVolumePerPerson(config.duration)
             * thermalRequirement(config.missionType)
    IN [width |-> Dm(CeilSqrt(0, 21, 8 * k)),
        length |-> Dm(CeilSqrt(0, 7, 6 * k))]

----------------------------------------------------------------------------
(* NASA_STANDARDS (data/nasa_standarts.js) *)

\* VOLUME_REQUIREMENTS.perPerson, m^3
perPersonShortStay == 20
perPersonMediumStay == 25
perPersonLongStay == 30
perPersonPermanent == 40
perPersonEmergency == Rat(28, 10)

\* VALIDATION.scoringWeights and VALIDATION.penalties
volumeCompliance == 25
safetyCompliance == 30
volumeDeficit == -2
safetyViolation == -50

\* calculateMinimumVolume(crewSize, missionDuration), m^3
calculateMinimumVolume(crewSize, missionDuration) ==
    LET perPerson ==
            IF missionDuration < 7 THEN perPersonEmergency
            ELSE IF missionDuration < 30 THEN Rat(perPersonShortStay, 1)
            ELSE IF missionDuration < 90 THEN Rat(perPersonMediumStay, 1)
            ELSE IF missionDuration < 180 THEN Rat(perPersonLongStay, 1)
            ELSE Rat(perPersonPermanent, 1)
    IN RatMul(Rat(crewSize, 1), perPerson)

\* the list 'essentialRooms' of validateHabitatDesign
habitatEssentialRooms ==
    {"crew_quarters", "hygiene", "galley", "diningdroom", "exercise",
     "workstation", "medical"}

\* validateHabitatDesign(habitatDesign, missionParams); habitatDesign is
\* {totalHabitableVolume (m^3), rooms}
validateHabitatDesign(habitatDesign, missionParams) ==
    LET requiredVolume == calculateMinimumVolume(missionParams.crewSize,
                                                 missionParams.duration)
        actualVolume == Rat(habitatDesign.totalHabitableVolume, 1)
        volumeOk == RatLeq(requiredVolume, actualVolume)
        deficit == RatAdd(requiredVolume, Rat(-actualVolume.n, actualVolume.d))
        volumeScore == IF volumeOk THEN Rat(volumeCompliance, 1)
                       ELSE RatMul(Rat(volumeDeficit, 1), deficit)
        missingEssential ==
            {roomType \in habitatEssentialRooms :
                ~ \E i \in DOMAIN habitatDesign.rooms :
                      habitatDesign.rooms[i].type = roomType}
        essentialScore == IF missingEssential = {} THEN safetyCompliance
                          ELSE safetyViolation * Cardinality(missingEssential)
        score == RatAdd(volumeScore, Rat(essentialScore, 1))
    IN [score |-> RatMax(Rat(0, 1), RatMin(Rat(100, 1), score)),
        maxScore |-> 100,
        compliance |-> [volume |-> volumeOk,
                        essentialRooms |-> missingEssential = {}],
        missingEssential |-> missingEssential]

----------------------------------------------------------------------------
(* structure.js *)

\* getRequiredVolumePerPerson, on the duration of structureState.missionConfig
getRequiredVolumePerPerson(config) ==
    LET duration == IF config.duration # 0 THEN config.duration ELSE 60
    IN IF duration <= 30 THEN 20
       ELSE IF duration <= 90 THEN 25
       ELSE IF duration <= 180 THEN 30
       ELSE 40

----------------------------------------------------------------------------
(* ValidationSystem *)

CountType(rooms, type) == Cardinality({i \in DOMAIN rooms : rooms[i].type = type})

placedTypes(rooms) == {rooms[i].type : i \in DOMAIN rooms}

\* roomDef ? roomDef.volume : 0, summed over the rooms
RECURSIVE totalVolume(_)
totalVolume(rooms) ==
    IF rooms = <<>> THEN 0
    ELSE LET roomDef == getRoomById(Head(rooms).type)
         IN (IF roomDef # null THEN roomDef.volume ELSE 0) + totalVolume(Tail(rooms))

\* roomDef ? roomDef.area ELSE 0, summed over the rooms
RECURSIVE totalRoomArea(_)
totalRoomArea(rooms) ==
    IF rooms = <<>> THEN 0
    ELSE LET roomDef == getRoomById(Head(rooms).type)
         IN (IF roomDef # null THEN roomDef.area ELSE 0) + totalRoomArea(Tail(rooms))

\* VALIDATION_RULES.volumePerPerson.calculate (weight 25)
volumePerPerson(rooms, config) ==
    LET total == totalVolume(rooms)
        current == IF config.crewSize > 0 THEN Rat(total, 1000 * config.crewSize)
                   ELSE Rat(0, 1)
        required == perPersonMediumStay
        passed == RatLeq(Rat(required, 1), current)
    IN [raised |-> FALSE, current |-> current, required |-> required,
        passed |-> passed,
        score |-> IF passed THEN Rat(25, 1) ELSE Rat(0, 1), weight |-> 25]

\* a faulty crew quarters rule: no partial credit
crewQuartersAllOrNothing(rooms, config) ==
    LET quarters == CountType(rooms, "crew_quarters")
        required == config.crewSize
    IN [raised |-> FALSE, current |-> quarters, required |-> required,
        passed |-> quarters >= required,
        score |-> IF quarters >= required THEN Rat(20, 1) ELSE Rat(0, 1),
        weight |-> 20]

\* a faulty crew quarters rule: the credit of a crew of at least 1 is not
\* capped at the weight
crewQuartersUncapped(rooms, config) ==
    LET quarters == CountType(rooms, "crew_quarters")
        required == config.crewSize
    IN [raised |-> FALSE, current |-> quarters, required |-> required,
        passed |-> quarters >= required,
        score |-> IF required = 0 THEN Rat(20, 1)
                  ELSE Rat(quarters * 20, required),
        weight |-> 20]

\* VALIDATION_RULES.crewQuarters.calculate (weight 20)
crewQuarters(rooms, config) ==
    LET quarters == CountType(rooms, "crew_quarters")
        required == config.crewSize
    IN [raised |-> FALSE, current |-> quarters, required |-> required,
        passed |-> quarters >= required,
        score |-> IF quarters >= required THEN Rat(20, 1)
                  ELSE Rat(quarters * 20, required),
        weight |-> 20]

\* the list 'essential' of VALIDATION_RULES.essentialRooms.calculate
essential ==
    {"hygiene", "galley", "diningdroom", "exercise", "workstation", "medical",
     "storage"}

\* VALIDATION_RULES.essentialRooms.calculate (weight 20)
essentialRooms(rooms, config) ==
    LET present == Cardinality(essential \cap placedTypes(rooms))
        required == Cardinality(essential)
    IN [raised |-> FALSE, current |-> present, required |-> required,
        passed |-> present = required,
        score |-> Rat(present * 20, required), weight |-> 20]

\* VALIDATION_RULES.hygieneStations.calculate (weight 15)
hygieneStations(rooms, config) ==
    LET stations == CountType(rooms, "hygiene")
        required == MathCeil(config.crewSize, 3)
    IN [raised |-> FALSE, current |-> stations, required |-> required,
        passed |-> stations >= required,
        score |-> IF stations >= required THEN Rat(15, 1)
                  ELSE Rat(stations * 15, required),
        weight |-> 15]

\* maxDistance of VALIDATION_RULES.emergencyAccess.calculate, metres
accessMaxDistance == 15

\* VALIDATION_RULES.emergencyAccess.calculate (weight 10).  'medical' is the
\* array medicalBays itself, so medical.position is undefined and the first
\* calculateDistance of the forEach throws.
emergencyAccess(rooms, config) ==
    LET IsMedical(room) == room.type = "medical"
        medicalBays == SelectSeq(rooms, IsMedical)
        Result(accessRatio) ==
            [raised |-> FALSE, current |-> accessRatio, required |-> 1,
             passed |-> RatLeq(Rat(9, 10), accessRatio),
             score |-> Rat(accessRatio.n * 10, accessRatio.d),
             weight |-> 10]
    IN IF Len(medicalBays) = 0
       THEN [raised |-> FALSE, current |-> Rat(0, 1), required |-> 1,
             passed |-> FALSE, score |-> Rat(0, 1), weight |-> 10]
       ELSE LET medical == medicalBays
                distance(i) == calculateDistance(rooms[i].position,
                                                 ArrayPosition(medical))
                limit == accessMaxDistance * canvasScale
            IN IF \E i \in DOMAIN rooms : distance(i).raised THEN TypeError
               ELSE LET accessibleRooms ==
                            Cardinality({i \in DOMAIN rooms :
                                            distance(i).sq <= limit * limit})
                    IN Result(IF Len(rooms) > 0
                              THEN Rat(accessibleRooms, Len(rooms))
                              ELSE Rat(0, 1))

\* rule ids in the order of Object.values(VALIDATION_RULES)
RuleIds == <<"req-volume", "req-quarters", "req-essential", "req-hygiene",
             "req-access">>

VALIDATION_RULES(id, rooms, config) ==
    CASE id = "req-volume" -> volumePerPerson(rooms, config)
      [] id = "req-quarters" -> crewQuarters(rooms, config)
      [] id = "req-essential" -> essentialRooms(rooms, config)
      [] id = "req-hygiene" -> hygieneStations(rooms, config)
      [] id = "req-access" -> emergencyAccess(rooms, config)

RuleWeight(id) ==
    CASE id = "req-volume" -> 25
      [] id = "req-quarters" -> 20
      [] id = "req-essential" -> 20
      [] id = "req-hygiene" -> 15
      [] id = "req-access" -> 10

\* ValidationSystem.validateDesign; a rule that throws ends the forEach and
\* the call.  lastUpdate is Date.now() at the time of the call.
validateDesign(rooms, config) ==
    LET maxScore == SeqSum([i \in DOMAIN RuleIds |-> RuleWeight(RuleIds[i])])
        Results(requirements, score) ==
            [raised |-> FALSE,
             score |-> score,
             maxScore |-> maxScore,
             requirements |-> requirements,
             overallCompliance |-> MathRound(100 * score.n, maxScore * score.d),
             passed |-> Cardinality({id \in Range(RuleIds) : requirements[id].passed}),
             total |-> Len(RuleIds),
             lastUpdate |-> now]
        Report(requirements) ==
            IF \E id \in Range(RuleIds) : requirements[id].raised THEN TypeError
            ELSE Results(requirements,
                         RatSum([i \in DOMAIN RuleIds |->
                                    requirements[RuleIds[i]].score]))
    IN Report([id \in Range(RuleIds) |-> VALIDATION_RULES(id, rooms, config)])

----------------------------------------------------------------------------
(* RoomsManager: educational tips *)

\* EDUCATIONAL_TIPS: trigger, proximity (tenths of a metre), points
EDUCATIONAL_TIPS ==
    << [trigger |-> {"galley", "diningroom"}, proximity |-> Dm(30), points |-> 20],
       [trigger |-> {"exercise", "hygiene"}, proximity |-> Dm(40), points |-> 15],
       [trigger |-> {"crew_quarters", "exercise"}, proximity |-> Dm(20), points |-> -10],
       [trigger |-> {"medical", "storage"}, proximity |-> Dm(30), points |-> 12],
       [trigger |-> {"workstation", "crew_quarters"}, proximity |-> Dm(50), points |-> 8],
       [trigger |-> {"greenhouse", "workstation"}, proximity |-> Dm(30), points |-> 15],
       [trigger |-> {"airlock", "medical"}, proximity |-> Dm(60), points |-> 18] >>

\* one iteration of the forEach of checkEducationalTips: the distance is
\* taken between relevantRooms.position and relevantRooms.position, both
\* read from the filtered array
TipOutcome(tip, rooms) ==
    LET hasAllRoomTypes == \A t \in tip.trigger : \E i \in DOMAIN rooms : rooms[i].type = t
        IsRelevant(room) == room.type \in tip.trigger
        relevantRooms == SelectSeq(rooms, IsRelevant)
    IN IF hasAllRoomTypes /\ Len(relevantRooms) >= 2
       THEN LET distance == calculateDistance(ArrayPosition(relevantRooms),
                                              ArrayPosition(relevantRooms))
            IN IF distance.raised THEN TypeError
               ELSE [raised |-> FALSE,
                     triggered |-> distance.sq <= tip.proximity * tip.proximity]
       ELSE [raised |-> FALSE, triggered |-> FALSE]

\* RoomsManager.checkEducationalTips
checkEducationalTips(rooms) ==
    IF \E i \in DOMAIN EDUCATIONAL_TIPS : TipOutcome(EDUCATIONAL_TIPS[i], rooms).raised
    THEN TypeError
    ELSE LET Triggered(i) == TipOutcome(EDUCATIONAL_TIPS[i], rooms).triggered
         IN [raised |-> FALSE,
             tips |-> SelectSeq([i \in DOMAIN EDUCATIONAL_TIPS |-> i], Triggered)]

\* ValidationSystem.performRealTimeValidation: what it leaves in
\* currentValidation and whether it threw.  validateDesign runs first; the
\* result is stored before the tips are checked.
performRealTimeValidation(rooms, config, current) ==
    LET Outcome(results) ==
            IF results.raised
            THEN [raised |-> TRUE, currentValidation |-> current]
            ELSE [raised |-> checkEducationalTips(rooms).raised,
                  currentValidation |-> results]
    IN Outcome(validateDesign(rooms, config))

----------------------------------------------------------------------------
(* ScoringSystem *)

\* SCORING_CATEGORIES, in the order of Object.entries
CategoryIds == <<"nasaCompliance", "operationalEfficiency", "crewWellbeing",
                 "resourceOptimization">>

CategoryWeight(category) ==
    CASE category = "nasaCompliance" -> 35
      [] category = "operationalEfficiency" -> 25
      [] category = "crewWellbeing" -> 25
      [] category = "resourceOptimization" -> 15

RoomsOfType(rooms, types) ==
    LET OfType(room) == room.type \in types
    IN SelectSeq(rooms, OfType)

\* the squared distance between the positions of two placed rooms
SqDistance(room1, room2) == calculateDistance(room1.position, room2.position).sq

\* Math.min over a non-empty set of numbers
MathMin(S) == CHOOSE m \in S : \A n \in S : m <= n

\* the sum of the square roots of the numbers of sqs is at most bound; exact
\* when all are perfect squares, else decided on the roots taken to 1/16
SumSqrtLeq(sqs, bound) ==
    IF \A k \in DOMAIN sqs : MathSqrtFloor(sqs[k]) * MathSqrtFloor(sqs[k]) = sqs[k]
    THEN SeqSum([k \in DOMAIN sqs |-> MathSqrtFloor(sqs[k])]) <= bound
    ELSE SeqSum([k \in DOMAIN sqs |-> MathSqrtFloor(256 * sqs[k])]) < 16 * bound

\* ScoringSystem.calculateNASACompliance
calculateNASACompliance(placedRooms_, missionConfig_) ==
    LET crewSize == missionConfig_.crewSize
        volumePerPerson_ == IF crewSize > 0
                            THEN Rat(totalVolume(placedRooms_), 1000 * crewSize)
                            ELSE Rat(0, 1)
        requiredVolume == perPersonMediumStay
        volume == IF RatLeq(Rat(requiredVolume, 1), volumePerPerson_)
                  THEN Rat(25, 1)
                  ELSE RatMax(Rat(0, 1),
                              RatMul(Rat(25, requiredVolume), volumePerPerson_))
        essentialRooms_ == {"crew_quarters", "hygiene", "galley", "diningroom",
                            "exercise", "workstation", "medical"}
        presentEssential == essentialRooms_ \cap placedTypes(placedRooms_)
        quarters == CountType(placedRooms_, "crew_quarters")
        hygieneStations_ == CountType(placedRooms_, "hygiene")
        requiredHygiene == MathCeil(crewSize, 3)
        medicalBays == CountType(placedRooms_, "medical")
        factors ==
            [volume |-> volume,
             essentialRooms |-> Rat(Cardinality(presentEssential) * 25,
                                    Cardinality(essentialRooms_)),
             quarters |-> RatMin(Rat(20, 1), Rat(quarters * 20, crewSize)),
             hygiene |-> RatMin(Rat(15, 1),
                                Rat(hygieneStations_ * 15, requiredHygiene)),
             safety |-> Rat(IF medicalBays = 0 THEN 15 - 10 ELSE 15, 1)]
    IN [raised |-> FALSE,
        score |-> RatSum(<<factors.volume, factors.essentialRooms,
                           factors.quarters, factors.hygiene, factors.safety>>),
        maxScore |-> 100,
        factors |-> factors]

\* ScoringSystem.calculateOperationalEfficiency.  galleys.position and
\* wardrooms.position are read from the filtered arrays, so the distance call
\* throws as soon as both a galley and a diningroom are placed; the traffic
\* flow check reads wardroom.position from the array in the same way.
calculateOperationalEfficiency(placedRooms_) ==
    LET galleys == RoomsOfType(placedRooms_, {"galley"})
        wardrooms == RoomsOfType(placedRooms_, {"diningroom"})
        exerciseAreas == RoomsOfType(placedRooms_, {"exercise"})
        hygieneStations_ == RoomsOfType(placedRooms_, {"hygiene"})
        workstations == RoomsOfType(placedRooms_, {"workstation"})
        crewQuarters_ == RoomsOfType(placedRooms_, {"crew_quarters"})
        otherRooms == LET NotDining(room) == room.type # "diningroom"
                      IN SelectSeq(placedRooms_, NotDining)
        KitchenDining(distance) ==
            IF distance.raised THEN TypeError
            ELSE [raised |-> FALSE,
                  points |-> IF distance.sq <= Dm(30) * Dm(30) THEN 30
                             ELSE IF distance.sq <= Dm(60) * Dm(60) THEN 20
                             ELSE 10]
        kitchenDining ==
            IF Len(galleys) > 0 /\ Len(wardrooms) > 0
            THEN KitchenDining(calculateDistance(ArrayPosition(galleys),
                                                 ArrayPosition(wardrooms)))
            ELSE [raised |-> FALSE, points |-> 0]
        exerciseHygiene ==
            IF Len(exerciseAreas) > 0 /\ Len(hygieneStations_) > 0
            THEN IF MathMin({SqDistance(exerciseAreas[i], hygieneStations_[j]) :
                                i \in DOMAIN exerciseAreas,
                                j \in DOMAIN hygieneStations_})
                        <= Dm(40) * Dm(40)
                 THEN 25 ELSE 15
            ELSE 0
        minWorkDistance(quarter) ==
            MathMin({SqDistance(quarter, workstations[j]) : j \in DOMAIN workstations})
        workAccess ==
            IF Len(workstations) > 0 /\ Len(crewQuarters_) > 0
            THEN IF SumSqrtLeq([k \in DOMAIN crewQuarters_ |->
                                   minWorkDistance(crewQuarters_[k])],
                               Dm(80) * Len(crewQuarters_))
                 THEN 25 ELSE 15
            ELSE 0
        wardroomDistance(room) ==
            calculateDistance(ArrayPosition(wardrooms), room.position)
        trafficFlow ==
            IF Len(wardrooms) > 0 /\ Len(otherRooms) > 0
            THEN IF \E k \in DOMAIN otherRooms : wardroomDistance(otherRooms[k]).raised
                 THEN TypeError
                 ELSE [raised |-> FALSE,
                       points |-> IF SumSqrtLeq([k \in DOMAIN otherRooms |->
                                                   wardroomDistance(otherRooms[k]).sq],
                                                Dm(60) * Len(otherRooms))
                                  THEN 20 ELSE 20 - 10]
            ELSE [raised |-> FALSE, points |-> 20]
        Results(kitchen, exercise, work, flow) ==
            IF kitchen.raised \/ flow.raised THEN TypeError
            ELSE [raised |-> FALSE,
                  score |-> Rat(kitchen.points + exercise + work + flow.points, 1),
                  maxScore |-> 100,
                  factors |-> [kitchenDining |-> kitchen.points,
                               exerciseHygiene |-> exercise,
                               workAccess |-> work,
                               trafficFlow |-> flow.points]]
    IN Results(kitchenDining, exerciseHygiene, workAccess, trafficFlow)

\* ScoringSystem.calculateCrewWellbeing
calculateCrewWellbeing(placedRooms_, missionConfig_) ==
    LET crewSize == missionConfig_.crewSize
        crewQuarters_ == RoomsOfType(placedRooms_, {"crew_quarters"})
        exerciseAreas == RoomsOfType(placedRooms_, {"exercise"})
        recreationRooms == RoomsOfType(placedRooms_, {"recreation", "greenhouse"})
        socialAreas == RoomsOfType(placedRooms_, {"diningdroom", "recreation", "galley"})
        privacy == IF Len(crewQuarters_) >= crewSize THEN Rat(30, 1)
                   ELSE RatMax(Rat(5, 1), Rat(30 * Len(crewQuarters_), crewSize))
        noisyPairs == {<<i, j>> \in (DOMAIN exerciseAreas) \X (DOMAIN crewQuarters_) :
                          SqDistance(exerciseAreas[i], crewQuarters_[j])
                              < Dm(30) * Dm(30)}
        noiseScore == 25 - 8 * Cardinality(noisyPairs)
        qolScore == IF Len(recreationRooms) > 0 THEN 10 + 15 ELSE 10
        socialGrouping ==
            \E i, j \in DOMAIN socialAreas :
                i < j /\ SqDistance(socialAreas[i], socialAreas[j]) <= Dm(50) * Dm(50)
        socialInteraction == IF Len(socialAreas) >= 2
                             THEN IF socialGrouping THEN 20 ELSE 15
                             ELSE 5
        factors == [privacy |-> privacy,
                    noiseIsolation |-> Max(0, noiseScore),
                    qualityOfLife |-> qolScore,
                    socialInteraction |-> socialInteraction]
    IN [raised |-> FALSE,
        score |-> RatAdd(privacy, Rat(factors.noiseIsolation + qolScore
                                      + socialInteraction, 1)),
        maxScore |-> 100,
        factors |-> factors]

\* ScoringSystem.calculateResourceOptimization.  utilizationRatio is
\* totalRoomArea / moduleArea = 16 * area / (width * length) in the units here.
calculateResourceOptimization(placedRooms_, moduleDimensions_) ==
    LET utilizationRatio == Rat(16 * totalRoomArea(placedRooms_),
                                moduleDimensions_.width * moduleDimensions_.length)
        AtLeast(n, d) == RatLeq(Rat(n, d), utilizationRatio)
        AtMost(n, d) == RatLeq(utilizationRatio, Rat(n, d))
        utilizationScore ==
            IF AtLeast(60, 100) /\ AtMost(75, 100) THEN 40
            ELSE IF AtLeast(50, 100) /\ ~AtLeast(60, 100) THEN 30
            ELSE IF ~AtMost(75, 100) /\ AtMost(85, 100) THEN 35
            ELSE 20
        storageRooms == RoomsOfType(placedRooms_, {"storage"})
        keyAreas == RoomsOfType(placedRooms_, {"galley", "workstation", "medical"})
        minStorageDistance(area) ==
            MathMin({SqDistance(area, storageRooms[j]) : j \in DOMAIN storageRooms})
        farAreas == {k \in DOMAIN keyAreas :
                        minStorageDistance(keyAreas[k]) > Dm(80) * Dm(80)}
        storageAccess == IF Len(storageRooms) = 0 THEN 0
                         ELSE Max(10, 30 - 5 * Cardinality(farAreas))
        oversizedRooms ==
            LET Oversized(room) ==
                    LET roomDef == getRoomById(room.type)
                    IN roomDef # null /\ 2 * roomDef.volume > 3 * roomDef.volume
            IN SelectSeq(placedRooms_, Oversized)
        sizingScore == 30 - 5 * Len(oversizedRooms)
        factors == [spaceUtilization |-> utilizationScore,
                    storageAccess |-> storageAccess,
                    roomSizing |-> Max(15, sizingScore)]
    IN [raised |-> FALSE,
        score |-> Rat(utilizationScore + storageAccess + factors.roomSizing, 1),
        maxScore |-> 100,
        factors |-> factors]

\* ScoringSystem.getGradeLetter
getGradeLetter(percentage) ==
    IF RatLeq(Rat(90, 1), percentage) THEN "A"
    ELSE IF RatLeq(Rat(80, 1), percentage) THEN "B"
    ELSE IF RatLeq(Rat(70, 1), percentage) THEN "C"
    ELSE IF RatLeq(Rat(60, 1), percentage) THEN "D"
    ELSE "F"

\* generateRecommendations with "at or below" in place of "below"
generateRecommendationsAtThreshold(categoryScores) ==
    (IF RatLeq(categoryScores["nasaCompliance"].percentage, Rat(80, 1))
     THEN << [category |-> "NASA Compliance", priority |-> "high"] >> ELSE <<>>)
    \o (IF RatLeq(categoryScores["operationalEfficiency"].percentage, Rat(70, 1))
        THEN << [category |-> "Operations", priority |-> "medium"] >> ELSE <<>>)
    \o (IF RatLeq(categoryScores["crewWellbeing"].percentage, Rat(75, 1))
        THEN << [category |-> "Wellbeing", priority |-> "medium"] >> ELSE <<>>)
    \o (IF RatLeq(categoryScores["resourceOptimization"].percentage, Rat(70, 1))
        THEN << [category |-> "Resources", priority |-> "low"] >> ELSE <<>>)

\* ScoringSystem.generateRecommendations
generateRecommendations(categoryScores) ==
    (IF RatLt(categoryScores["nasaCompliance"].percentage, Rat(80, 1))
     THEN << [category |-> "NASA Compliance", priority |-> "high"] >> ELSE <<>>)
    \o (IF RatLt(categoryScores["operationalEfficiency"].percentage, Rat(70, 1))
        THEN << [category |-> "Operations", priority |-> "medium"] >> ELSE <<>>)
    \o (IF RatLt(categoryScores["crewWellbeing"].percentage, Rat(75, 1))
        THEN << [category |-> "Wellbeing", priority |-> "medium"] >> ELSE <<>>)
    \o (IF RatLt(categoryScores["resourceOptimization"].percentage, Rat(70, 1))
        THEN << [category |-> "Resources", priority |-> "low"] >> ELSE <<>>)

\* ScoringSystem.calculateTotalScore; a category that throws ends the call
calculateTotalScore(placedRooms_, missionConfig_, moduleDimensions_) ==
    LET maxPossibleScore == SeqSum([k \in DOMAIN CategoryIds |->
                                       CategoryWeight(CategoryIds[k])])
        Category(category, categoryScore) ==
            [raw |-> categoryScore.score,
             weighted |-> RatMul(categoryScore.score,
                                 Rat(CategoryWeight(category), categoryScore.maxScore)),
             percentage |-> MathRoundNum(RatMul(categoryScore.score,
                                                Rat(100, categoryScore.maxScore))),
             factors |-> categoryScore.factors]
        Results(categoryScores, totalScore, finalPercentage) ==
            [raised |-> FALSE,
             totalScore |-> MathRoundNum(totalScore),
             maxScore |-> maxPossibleScore,
             percentage |-> finalPercentage,
             grade |-> getGradeLetter(finalPercentage),
             categories |-> categoryScores,
             recommendations |-> generateRecommendations(categoryScores),
             timestamp |-> now]
        Weighted(categoryScores, totalScore) ==
            Results(categoryScores, totalScore,
                    MathRoundNum(RatMul(totalScore, Rat(100, maxPossibleScore))))
        Total(categoryScores) ==
            Weighted(categoryScores,
                     RatSum([k \in DOMAIN CategoryIds |->
                                categoryScores[CategoryIds[k]].weighted]))
        Report(scores) ==
            IF \E category \in Range(CategoryIds) : scores[category].raised
            THEN TypeError
            ELSE Total([category \in Range(CategoryIds) |->
                           Category(category, scores[category])])
    IN Report([category \in Range(CategoryIds) |->
                  CASE category = "nasaCompliance" ->
                           calculateNASACompliance(placedRooms_, missionConfig_)
                    [] category = "operationalEfficiency" ->
                           calculateOperationalEfficiency(placedRooms_)
                    [] category = "crewWellbeing" ->
                           calculateCrewWellbeing(placedRooms_, missionConfig_)
                    [] category = "resourceOptimization" ->
                           calculateResourceOptimization(placedRooms_,
                                                         moduleDimensions_)])

----------------------------------------------------------------------------
(* HabitatEditor *)

\* gridSize of snapToGrid and autoArrangeRooms: 0.5 m
gridSize == Dm(5)

\* offset of the module outline inside the canvas, px
moduleOffset == 40

\* snapToGrid: Math.round(position / gridSize) * gridSize on each coordinate
snapToGrid(position) ==
    [x |-> MathRound(position.x, gridSize) * gridSize,
     y |-> MathRound(position.y, gridSize) * gridSize]

\* the rectangle {x, y, width, length} of a room of type roomDef at position
RoomRect(position, roomDef) ==
    [x |-> position.x, y |-> position.y,
     width |-> roomDef.dimensions.width, length |-> roomDef.dimensions.length]

\* a faulty bounds test: a room that touches the far edges is refused
isValidPositionNoFlush(roomType, position, rooms, dims) ==
    LET roomDef == getRoomById(roomType)
    IN IF roomDef = null THEN FALSE
       ELSE IF \/ position.x < 0
               \/ position.y < 0
               \/ position.x + roomDef.dimensions.width >= dims.width
               \/ position.y + roomDef.dimensions.length >= dims.length
       THEN FALSE
       ELSE LET newRoom == RoomRect(position, roomDef)
            IN ~ \E i \in DOMAIN rooms :
                    checkRoomOverlap(newRoom,
                        RoomRect(rooms[i].position, getRoomById(rooms[i].type)))

\* HabitatEditor.isValidPosition throws: roomDef.dimensions is undefined when
\* roomDef is a built-in function, and is read once neither coordinate is
\* negative
isValidPositionThrows(roomType, position) ==
    /\ getRoomById(roomType) = builtinFunction
    /\ ~(position.x < 0 \/ position.y < 0)

\* HabitatEditor.isValidPosition, where it does not throw
isValidPosition(roomType, position, rooms, dims) ==
    LET roomDef == getRoomById(roomType)
    IN IF roomDef = null THEN FALSE
       ELSE IF \/ position.x < 0
               \/ position.y < 0
               \/ position.x + roomDef.dimensions.width > dims.width
               \/ position.y + roomDef.dimensions.length > dims.length
       THEN FALSE
       ELSE LET newRoom == RoomRect(position, roomDef)
            IN ~ \E i \in DOMAIN rooms :
                    checkRoomOverlap(newRoom,
                        RoomRect(rooms[i].position, getRoomById(rooms[i].type)))

\* createPlacedRoomElement: the element appended to #placed-rooms
createPlacedRoomElement(placedRoom, roomDef) ==
    [roomId |-> placedRoom.id, roomType |-> placedRoom.type,
     left |-> moduleOffset + placedRoom.position.x,
     top |-> moduleOffset + placedRoom.position.y,
     width |-> roomDef.dimensions.width, height |-> roomDef.dimensions.length]

\* updateCanvasInfo: #rooms-count and #space-used (percent of the module area)
updateCanvasInfo(rooms, dims) ==
    [roomsCount |-> Len(rooms),
     spaceUsed |-> MathRound(100 * totalRoomArea(rooms) * canvasScale * canvasScale,
                             100 * dims.width * dims.length)]

\* what a handler or call reports: the candidate it was given, whether the
\* candidate was accepted, whether the call threw, and the value returned
NoOp == [op |-> "none", roomType |-> "", position |-> [x |-> 0, y |-> 0],
         valid |-> FALSE, raised |-> FALSE, result |-> null]

\* HabitatEditor.placeRoom, called from handleDrop: the room and its element
\* are added first, then performValidation, then updateCanvasInfo; a throw in
\* performValidation ends the handler there
placeRoom(roomType, position) ==
    LET roomDef == getRoomById(roomType)
        placedRoom == [id |-> nextRoomId, type |-> roomType, position |-> position]
        rooms == Append(placedRooms, placedRoom)
    IN \E validation \in {performRealTimeValidation(rooms, missionConfig,
                                                    currentValidation)} :
       /\ placedRooms' = rooms
       /\ placedRoomsContainer' =
              Append(placedRoomsContainer, createPlacedRoomElement(placedRoom, roomDef))
       /\ nextRoomId' = nextRoomId + 1
       /\ currentValidation' = validation.currentValidation
       /\ canvasInfo' = IF validation.raised THEN canvasInfo
                        ELSE updateCanvasInfo(rooms, moduleDimensions)
       /\ lastOp' = [NoOp EXCEPT !.op = "drop", !.roomType = roomType,
                                 !.position = position, !.valid = TRUE,
                                 !.raised = validation.raised]

\* HabitatEditor.handleDrop of the text roomType at canvas-relative pixel
\* (clientX, clientY)
handleDrop(roomType, clientX, clientY) ==
    /\ nextRoomId <= MaxRoomIds
    /\ UNCHANGED <<now, missionConfig, pageVars, moduleDimensions>>
    /\ IF roomType = "" \/ getRoomById(roomType) = null
       THEN /\ lastOp' = [NoOp EXCEPT !.op = "drop", !.roomType = roomType]
            /\ UNCHANGED <<placedRooms, placedRoomsContainer, canvasInfo,
                           currentValidation, nextRoomId>>
       ELSE LET position == snapToGrid([x |-> clientX - moduleOffset,
                                        y |-> clientY - moduleOffset])
            IN IF isValidPositionThrows(roomType, position)
               THEN /\ lastOp' = [NoOp EXCEPT !.op = "drop", !.roomType = roomType,
                                              !.position = position,
                                              !.raised = TRUE]
                    /\ UNCHANGED <<placedRooms, placedRoomsContainer, canvasInfo,
                                   currentValidation, nextRoomId>>
               ELSE IF isValidPosition(roomType, position, placedRooms,
                                       moduleDimensions)
               THEN placeRoom(roomType, position)
               ELSE /\ lastOp' = [NoOp EXCEPT !.op = "drop", !.roomType = roomType,
                                              !.position = position]
                    /\ UNCHANGED <<placedRooms, placedRoomsContainer, canvasInfo,
                                   currentValidation, nextRoomId>>

\* HabitatEditor.removeRoom, the click handler of a placed room element
removeRoom(roomId) ==
    LET Keep(room) == room.id # roomId
        KeepElement(element) == element.roomId # roomId
        rooms == SelectSeq(placedRooms, Keep)
    IN \E validation \in {performRealTimeValidation(rooms, missionConfig,
                                                    currentValidation)} :
       /\ placedRooms' = rooms
       /\ placedRoomsContainer' = SelectSeq(placedRoomsContainer, KeepElement)
       /\ currentValidation' = validation.currentValidation
       /\ canvasInfo' = IF validation.raised THEN canvasInfo
                        ELSE updateCanvasInfo(rooms, moduleDimensions)
       /\ lastOp' = [NoOp EXCEPT !.op = "removeRoom", !.raised = validation.raised]
       /\ UNCHANGED <<now, missionConfig, pageVars, moduleDimensions, nextRoomId>>

\* HabitatEditor.clearAllRooms; confirmed is the answer to confirm()
clearAllRooms(confirmed) ==
    /\ Len(placedRooms) # 0
    /\ UNCHANGED <<now, missionConfig, pageVars, moduleDimensions, nextRoomId>>
    /\ IF confirmed
       THEN \E validation \in {performRealTimeValidation(<<>>, missionConfig,
                                                         currentValidation)} :
               /\ placedRooms' = <<>>
               /\ placedRoomsContainer' = <<>>
               /\ currentValidation' = validation.currentValidation
               /\ canvasInfo' = IF validation.raised THEN canvasInfo
                                ELSE updateCanvasInfo(<<>>, moduleDimensions)
               /\ lastOp' = [NoOp EXCEPT !.op = "clearAllRooms",
                                         !.raised = validation.raised]
       ELSE /\ lastOp' = [NoOp EXCEPT !.op = "clearCancelled"]
            /\ UNCHANGED <<placedRooms, placedRoomsContainer, canvasInfo,
                           currentValidation>>

\* the forEach of autoArrangeRooms from the row position (currentX, currentY)
RECURSIVE arrangeFrom(_, _, _, _, _)
arrangeFrom(rooms, currentX, currentY, rowHeight, maxWidth) ==
    IF rooms = <<>> THEN <<>>
    ELSE LET placedRoom == Head(rooms)
             roomDef == getRoomById(placedRoom.type)
         IN IF roomDef = null
            THEN <<placedRoom>>
                 \o arrangeFrom(Tail(rooms), currentX, currentY, rowHeight, maxWidth)
            ELSE LET wrap == currentX + roomDef.dimensions.width > maxWidth
                     x == IF wrap THEN 0 ELSE currentX
                     y == IF wrap THEN currentY + rowHeight + gridSize ELSE currentY
                     height == IF wrap THEN 0 ELSE rowHeight
                 IN <<[placedRoom EXCEPT !.position = [x |-> x, y |-> y]]>>
                    \o arrangeFrom(Tail(rooms),
                                   x + roomDef.dimensions.width + gridSize, y,
                                   Max(height, roomDef.dimensions.length), maxWidth)

\* HabitatEditor.autoArrangeRooms: the rooms and their elements are moved,
\* then performValidation; updateCanvasInfo is not called
autoArrangeRooms ==
    /\ UNCHANGED <<now, missionConfig, pageVars, moduleDimensions, nextRoomId, canvasInfo>>
    /\ IF Len(placedRooms) = 0
       THEN /\ lastOp' = [NoOp EXCEPT !.op = "autoArrangeRooms"]
            /\ UNCHANGED <<placedRooms, placedRoomsContainer, currentValidation>>
       ELSE \E rooms \in {arrangeFrom(placedRooms, 0, 0, 0, moduleDimensions.width)} :
            \E validation \in {performRealTimeValidation(rooms, missionConfig,
                                                         currentValidation)} :
            LET moved(element) ==
                    IF \E i \in DOMAIN rooms : rooms[i].id = element.roomId
                    THEN LET placedRoom ==
                                 rooms[CHOOSE i \in DOMAIN rooms :
                                           rooms[i].id = element.roomId]
                         IN [element EXCEPT
                                !.left = moduleOffset + placedRoom.position.x,
                                !.top = moduleOffset + placedRoom.position.y]
                    ELSE element
            IN /\ placedRooms' = rooms
               /\ placedRoomsContainer' =
                      [k \in DOMAIN placedRoomsContainer |->
                          moved(placedRoomsContainer[k])]
               /\ currentValidation' = validation.currentValidation
               /\ lastOp' = [NoOp EXCEPT !.op = "autoArrangeRooms", !.valid = TRUE,
                                         !.raised = validation.raised]

\* HabitatEditor.submitDesign: the final score shown in the submission modal
submitDesign ==
    /\ UNCHANGED <<placedRooms, placedRoomsContainer, canvasInfo, now, missionConfig, pageVars,
                   moduleDimensions, currentValidation, nextRoomId>>
    /\ IF Len(placedRooms) = 0
       THEN lastOp' = [NoOp EXCEPT !.op = "submitDesign"]
       ELSE \E finalScore \in {calculateTotalScore(placedRooms, missionConfig,
                                                   moduleDimensions)} :
               lastOp' = [NoOp EXCEPT !.op = "submitDesign", !.valid = TRUE,
                                      !.raised = finalScore.raised,
                                      !.result = finalScore]

\* a call of RoomsManager.validateRoomPlacement on the current layout, as
\* getPlacementRecommendations makes for its candidate positions
callValidateRoomPlacement(roomId, position) ==
    \E validation \in {validateRoomPlacement(roomId, position, placedRooms)} :
       /\ lastOp' = [NoOp EXCEPT !.op = "validateRoomPlacement",
                                 !.roomType = roomId, !.position = position,
                                 !.valid = ~validation.raised /\ validation.valid,
                                 !.raised = validation.raised,
                                 !.result = validation]
       /\ UNCHANGED <<placedRooms, placedRoomsContainer, canvasInfo, now, missionConfig, pageVars,
                      moduleDimensions, currentValidation, nextRoomId>>

----------------------------------------------------------------------------
(* JavaScript values of the pages outside the editor *)

\* a string and a number as values of one kind each, so that '4' and 4 differ
Str(s) == [string |-> s]
Num(n) == [number |-> n]
\* the number NaN, as parseInt answers for a text that holds no number
NaNValue == [nan |-> TRUE]

\* o[k] of an object: undefined when o has no such key
Get(o, k) == IF k \in DOMAIN o THEN o[k] ELSE undefined

\* {...a, ...b}: the keys of both, those of b winning
Spread(a, b) ==
    [k \in DOMAIN a \cup DOMAIN b |-> IF k \in DOMAIN b THEN b[k] ELSE a[k]]

\* a value that is no object: spreading it adds no key
isPrimitive(value) ==
    \/ value \in {null, undefined, NaNValue}
    \/ DOMAIN value = {"number"}

\* JSON.parse(JSON.stringify(o)) of an object: keys holding undefined are
\* dropped, NaN is written as null
JSONStringify(o) ==
    [k \in {j \in DOMAIN o : o[j] # undefined} |->
        IF o[k] = NaNValue THEN null ELSE o[k]]

----------------------------------------------------------------------------
(* MissionConfig of configuration.js: the configuration and its storage *)

\* MISSION_OPTIONS.types, crewSizes and durations, mapped to their values
validTypes == {Str("moon"), Str("mars")}
validSizes == {Num(n) : n \in 2..6}
validDurations == {Num(7), Num(30), Num(60), Num(90), Num(180)}

\* currentConfig as the module is loaded
DefaultConfig ==
    [missionType |-> Str("moon"), crewSize |-> Num(4), duration |-> Num(60),
     moduleType |-> Str("rectangular")]

\* validateConfig that answers an option out of range by the whole default
\* configuration
validateConfigResetAll(currentConfig) ==
    IF \/ Get(currentConfig, "missionType") \notin validTypes
       \/ Get(currentConfig, "crewSize") \notin validSizes
       \/ Get(currentConfig, "duration") \notin validDurations
    THEN Spread(currentConfig, DefaultConfig)
    ELSE currentConfig

\* validateConfig() on currentConfig: a field that is not one of the options
\* is set to its default, every other key is left as it is
validateConfig(currentConfig) ==
    LET types == IF Get(currentConfig, "missionType") \notin validTypes
                 THEN Spread(currentConfig, [missionType |-> Str("moon")])
                 ELSE currentConfig
        sizes == IF Get(types, "crewSize") \notin validSizes
                 THEN Spread(types, [crewSize |-> Num(4)])
                 ELSE types
    IN  IF Get(sizes, "duration") \notin validDurations
        THEN Spread(sizes, [duration |-> Num(60)])
        ELSE sizes

\* saveConfig(): the item 'spaceArchitects_config' is written, unless setItem
\* throws (storage that refuses writes), which is caught
saveConfig(c) ==
    IF c.writable
    THEN [c EXCEPT !.storage = [json |-> JSONStringify(c.currentConfig)]]
    ELSE c

\* updateConfiguration(newConfig): merge, validate, save
updateConfiguration(c, newConfig) ==
    LET merged == IF isPrimitive(newConfig) THEN c.currentConfig
                  ELSE Spread(c.currentConfig, newConfig)
    IN  saveConfig([c EXCEPT !.currentConfig = validateConfig(merged)])

\* loadConfig(): nothing without an item or with the empty text; a text that
\* JSON.parse rejects throws into the catch and leaves currentConfig alone
loadConfig(c) ==
    IF c.storage = null \/ "text" \in DOMAIN c.storage THEN c
    ELSE LET parsed == c.storage.json
             merged == IF isPrimitive(parsed) THEN c.currentConfig
                       ELSE Spread(c.currentConfig, parsed)
         IN  [c EXCEPT !.currentConfig = validateConfig(merged)]

\* maxRetries of initializeConfigPage
maxRetries == 5

\* MissionConfig as the script is loaded: no call of initializeConfigPage yet.
\* Of the call that runs, retryCount is its counter, timer its pending
\* setTimeout, attempts its calls of findAndSetupElements, setups its calls of
\* setupEventListeners, failed its final error; listeners counts the listeners
\* that all calls have added to each element
ConfigurationAtLoad ==
    [currentConfig |-> DefaultConfig, storage |-> null, writable |-> TRUE,
     calls |-> 0, retryCount |-> 0, timer |-> FALSE, attempts |-> 0,
     setups |-> 0, failed |-> FALSE, listeners |-> 0]

----------------------------------------------------------------------------
(* SpaceArchitects of app.js and StructurePage of structure.js *)

\* the page elements of the document, each of class 'page'
PageIds == {"welcome", "config", "structure", "editor"}

\* the keys of MODULE_CATALOG
StructureTypes == {"dome", "torus", "cube", "cylinder"}

\* appState and the document as the application is initialized
AppStateAtLoad ==
    [currentPage |-> "welcome", activePages |-> {"welcome"}, history |-> <<>>]

\* structureState, selectedStructureType and the Continue button as the script
\* is loaded; listeners counts the calls of setupNavigation, timers the
\* pending callbacks of initializeStructurePage
StructureStateAtLoad ==
    [selectedStructureType |-> null, selectedModules |-> {},
     continueDisabled |-> FALSE, listeners |-> 0, timers |-> 0,
     storage |-> null]

\* the later declaration of updateNavigationState (line 652), which is the one
\* every call in the module reaches
updateNavigationState(ss) ==
    LET hasSelections == Cardinality(ss.selectedModules) > 0
    IN  [ss EXCEPT !.continueDisabled = ~hasSelections]

\* the earlier declaration of updateNavigationState (line 361), replaced by
\* the later one when the module is evaluated
updateNavigationStateSimplified(ss) ==
    LET hasSelection == ss.selectedStructureType # null
    IN  [ss EXCEPT !.continueDisabled = ~hasSelection]

\* selectStructureType(moduleType)
selectStructureType(ss, moduleType) ==
    IF ss.selectedStructureType = Str(moduleType) THEN ss
    ELSE updateNavigationState([ss EXCEPT !.selectedStructureType = Str(moduleType)])

\* the later saveStructureState (line 678)
saveStructureState(ss) ==
    [ss EXCEPT !.storage = [json |-> [selectedModules |-> ss.selectedModules]]]

\* the later loadStructureState (line 697) with restoreUIState
loadStructureState(ss) ==
    IF ss.storage = null THEN ss
    ELSE updateNavigationState(
             [ss EXCEPT !.selectedModules = ss.storage.json.selectedModules])

\* handlePageTransition(fromPage, toPage): the page left saves its state, the
\* page entered sets a timer for its initialization, the history grows
handlePageTransition(site, fromPage, toPage) ==
    LET left == CASE fromPage = "config" ->
                       [site EXCEPT !.configuration = saveConfig(@)]
                  [] fromPage = "structure" ->
                       [site EXCEPT !.structureState = saveStructureState(@)]
                  [] OTHER -> site
        entered == IF toPage = "structure"
                   THEN [left EXCEPT !.structureState.timers = @ + 1]
                   ELSE left
    IN  [entered EXCEPT !.appState.history = Append(@, toPage)]

\* showPage with the lookup of the page element after the update of
\* appState.currentPage
showPageBeforeLookup(site, pageId) ==
    IF pageId \notin PageIds
    THEN [site EXCEPT !.returned = FALSE, !.appState.currentPage = pageId]
    ELSE LET previousPage == site.appState.currentPage
             shown == [site.appState EXCEPT !.activePages = {pageId},
                                            !.currentPage = pageId]
         IN  handlePageTransition(
                 [site EXCEPT !.appState = shown, !.returned = TRUE],
                 previousPage, pageId)

\* showPage(pageId)
showPage(site, pageId) ==
    IF pageId \notin PageIds THEN [site EXCEPT !.returned = FALSE]
    ELSE LET previousPage == site.appState.currentPage
             allPages == PageIds
             shown == [site.appState EXCEPT
                         !.activePages = (@ \ allPages) \cup {pageId},
                         !.currentPage = pageId]
         IN  handlePageTransition(
                 [site EXCEPT !.appState = shown, !.returned = TRUE],
                 previousPage, pageId)

\* the click handler of the Continue button, as setupNavigation adds it
continueClick(site) ==
    IF Cardinality(site.structureState.selectedModules) = 0
    THEN [site EXCEPT !.returned = FALSE]
    ELSE showPage([site EXCEPT !.structureState = saveStructureState(@)], "editor")

\* the click handler of the Back button
backClick(site) ==
    showPage([site EXCEPT !.structureState = saveStructureState(@)], "config")

\* a click reaches every listener that was added
RECURSIVE Dispatch(_, _, _)
Dispatch(site, button, listeners) ==
    IF listeners = 0 THEN site
    ELSE Dispatch(IF button = "continue" THEN continueClick(site) ELSE backClick(site),
                  button, listeners - 1)

----------------------------------------------------------------------------
(* The module selection of the configuration page *)

\* the module types of configState.selectedModules
ModuleTypes == {"dome", "torus", "cube", "cylinder"}

\* configState.selectedModules as the script is loaded, and the number of
\* click listeners that setupModuleSelection has added to the document
ConfigStateAtLoad ==
    [selectedModules |-> [m \in ModuleTypes |-> [selected |-> FALSE, quantity |-> 0]],
     listeners |-> 0]

\* the pages outside the editor as their scripts are loaded
PagesAtLoad ==
    /\ appState = AppStateAtLoad
    /\ structureState = StructureStateAtLoad
    /\ configuration = ConfigurationAtLoad
    /\ configState = ConfigStateAtLoad

\* the editor before it is opened
EditorAtLoad ==
    /\ now = 0
    /\ missionConfig = [missionType |-> "moon", crewSize |-> 4, duration |-> 60]
    /\ moduleDimensions = calculateModuleDimensions(missionConfig)
    /\ placedRooms = <<>>
    /\ placedRoomsContainer = <<>>
    /\ canvasInfo = [roomsCount |-> 0, spaceUsed |-> 0]
    /\ currentValidation = null
    /\ nextRoomId = 1

----------------------------------------------------------------------------
(* The editor as a state machine *)

\* the configurations the editor is opened with
EditorConfigs ==
    {[missionType |-> "mars", crewSize |-> 2, duration |-> 7],
     [missionType |-> "moon", crewSize |-> 4, duration |-> 60]}

\* texts dropped on the canvas: catalog ids and two texts that are no id, one
\* of them the name of a property that every object inherits
DropTypes == {"crew_quarters", "exercise", "medical", "plasma_lab", "toString"}

\* canvas-relative pixels of the drops
DropPoints ==
    {<<49, 31>>, <<120, 40>>, <<40, 180>>, <<20, 40>>, <<40, 20>>, <<140, 40>>,
     <<40, 200>>}

\* HabitatEditor.initialize: the configuration is read, the first
\* performValidation runs on the empty layout
Init ==
    /\ PagesAtLoad
    /\ now = 0
    /\ missionConfig \in EditorConfigs
    /\ moduleDimensions = calculateModuleDimensions(missionConfig)
    /\ placedRooms = <<>>
    /\ placedRoomsContainer = <<>>
    /\ canvasInfo = [roomsCount |-> 0, spaceUsed |-> 0]
    /\ currentValidation = validateDesign(<<>>, missionConfig)
    /\ nextRoomId = 1
    /\ lastOp = NoOp

Drop == \E roomType \in DropTypes, p \in DropPoints : handleDrop(roomType, p[1], p[2])

Remove == \E i \in DOMAIN placedRoomsContainer : removeRoom(placedRoomsContainer[i].roomId)

Clear == \E confirmed \in BOOLEAN : clearAllRooms(confirmed)

AutoArrange == autoArrangeRooms

Submit == submitDesign

\* candidates handed to validateRoomPlacement: a type and a grid position
CheckTypes == {"medical", "plasma_lab", "toString"}
CheckPositions == {[x |-> 0, y |-> 0], [x |-> Dm(20), y |-> 0], [x |-> Dm(40), y |-> Dm(40)]}

PlacementCheck ==
    \E roomId \in CheckTypes, position \in CheckPositions :
        callValidateRoomPlacement(roomId, position)

\* the handlers of one editing session; the session is followed at one reading
\* of the clock
Next == Drop \/ Remove \/ Clear \/ AutoArrange \/ Submit \/ PlacementCheck

Spec == Init /\ [][Next]_vars

----------------------------------------------------------------------------
(* The scoring functions applied to argument layouts *)

MaxArgRooms == 3
MaxCrew == 4

\* the rooms of the argument layouts, in the order they are appended: two crew
\* quarters 1 m apart, an exercise room 3 m from the first and 2 m from the
\* second, a galley with a hygiene station against its right edge, a dining
\* room, a medical bay and a storage room
ArgRooms ==
    << [type |-> "crew_quarters", position |-> [x |-> 0, y |-> 0]],
       [type |-> "crew_quarters", position |-> [x |-> Dm(10), y |-> 0]],
       [type |-> "exercise", position |-> [x |-> Dm(30), y |-> 0]],
       [type |-> "galley", position |-> [x |-> Dm(40), y |-> Dm(20)]],
       [type |-> "hygiene", position |-> [x |-> Dm(60), y |-> Dm(20)]],
       [type |-> "diningroom", position |-> [x |-> 0, y |-> 0]],
       [type |-> "medical", position |-> [x |-> 0, y |-> 0]],
       [type |-> "storage", position |-> [x |-> Dm(40), y |-> Dm(20)]] >>

\* the place of a room in the order in which argument layouts are built
ArgRank(room) ==
    CHOOSE r \in DOMAIN ArgRooms :
        room.type = ArgRooms[r].type /\ room.position = ArgRooms[r].position

\* mission configurations handed to the scoring functions; crewSize 0 is the
\* malformed configuration
ScoreConfigs ==
    {[missionType |-> "moon", crewSize |-> c, duration |-> 60] : c \in 0..MaxCrew}
    \cup {[missionType |-> "mars", crewSize |-> 2, duration |-> d] : d \in {30, 180}}

\* mission durations (days) asked of the volume computations
DurationInputs == {30, 60, 90, 180, 365}

\* totalHabitableVolume (m^3) of the designs handed to validateHabitatDesign
HabitableVolumes == {0, 250}

\* the moduleDimensions handed along with a configuration: those the
\* configuration page computes for it, and for a crew of 0, which that page
\* never holds, those of its default crew of 4
ArgModuleDimensions(config) ==
    calculateModuleDimensions(IF config.crewSize >= 1 THEN config
                              ELSE [config EXCEPT !.crewSize = 4])

InitScore ==
    /\ PagesAtLoad
    /\ now = 0
    /\ missionConfig \in ScoreConfigs
    /\ moduleDimensions = ArgModuleDimensions(missionConfig)
    /\ placedRooms = <<>>
    /\ placedRoomsContainer = <<>>
    /\ canvasInfo = [roomsCount |-> 0, spaceUsed |-> 0]
    /\ currentValidation = null
    /\ nextRoomId = 1
    /\ lastOp = NoOp

\* one more room in the layout that is handed to the functions
ArgRoom ==
    \E r \in DOMAIN ArgRooms :
        \E room \in {[id |-> nextRoomId, type |-> ArgRooms[r].type,
                      position |-> ArgRooms[r].position]} :
            /\ Len(placedRooms) < MaxArgRooms
            /\ \A i \in DOMAIN placedRooms : ArgRank(placedRooms[i]) < r
            /\ placedRooms' = Append(placedRooms, room)
            /\ nextRoomId' = nextRoomId + 1
            /\ lastOp' = [NoOp EXCEPT !.op = "argument"]
            /\ UNCHANGED <<placedRoomsContainer, canvasInfo, now, missionConfig, pageVars,
                           moduleDimensions, currentValidation>>

\* ValidationSystem.validateDesign(placedRooms, missionConfig)
CallValidateDesign ==
    \E results \in {validateDesign(placedRooms, missionConfig)} :
        /\ lastOp' = [NoOp EXCEPT !.op = "validateDesign", !.raised = results.raised,
                                  !.result = results]
        /\ UNCHANGED <<placedRooms, placedRoomsContainer, canvasInfo, now, missionConfig, pageVars,
                       moduleDimensions, currentValidation, nextRoomId>>

\* ScoringSystem.calculateTotalScore(placedRooms, missionConfig, moduleDimensions)
CallCalculateTotalScore ==
    \E results \in {calculateTotalScore(placedRooms, missionConfig,
                                        moduleDimensions)} :
        /\ lastOp' = [NoOp EXCEPT !.op = "calculateTotalScore",
                                  !.raised = results.raised, !.result = results]
        /\ UNCHANGED <<placedRooms, placedRoomsContainer, canvasInfo, now, missionConfig, pageVars,
                       moduleDimensions, currentValidation, nextRoomId>>

\* the required volume per person of a mission of the given duration, as each
\* component computes it: the structure page, the configuration page, the
\* standards helper (a total for the crew) and the validation rule
requiredVolumes(config) ==
    [duration |-> config.duration,
     crewSize |-> config.crewSize,
     structure |-> getRequiredVolumePerPerson(config),
     configuration |-> configVolumePerPerson(config.duration),
     standards |-> calculateMinimumVolume(config.crewSize, config.duration),
     validation |-> volumePerPerson(<<>>, config).required,
     scoring |-> perPersonMediumStay]

\* the volume computations do not look at the rooms: they are asked once per
\* configuration and duration, before the layout is built
CallRequiredVolume ==
    \E duration \in DurationInputs :
        /\ placedRooms = <<>>
        /\ lastOp' = [NoOp EXCEPT
                        !.op = "requiredVolume",
                        !.result = requiredVolumes([missionConfig EXCEPT
                                                      !.duration = duration])]
        /\ UNCHANGED <<placedRooms, placedRoomsContainer, canvasInfo, now,
                       missionConfig, pageVars, moduleDimensions, currentValidation,
                       nextRoomId>>

\* the candidates (roomId, position) handed to validateRoomPlacement with the
\* argument layout as existingRooms: an exercise room 0.5 m from both crew
\* quarters, one 3 m from the first and 2 m from the second, and a hygiene
\* station at (0.4 m, 3.15 m)
ArgCandidates ==
    {[type |-> "exercise", position |-> [x |-> Dm(5), y |-> 0]],
     [type |-> "exercise", position |-> [x |-> Dm(30), y |-> 0]],
     [type |-> "hygiene", position |-> [x |-> Dm(4), y |-> 126]]}

\* RoomsManager.validateRoomPlacement(roomId, position, placedRooms)
CallValidateRoomPlacement ==
    \E candidate \in ArgCandidates :
        callValidateRoomPlacement(candidate.type, candidate.position)

\* validateHabitatDesign({totalHabitableVolume, rooms}, missionConfig)
CallValidateHabitatDesign ==
    \E totalHabitableVolume \in HabitableVolumes :
        /\ lastOp' = [NoOp EXCEPT
                        !.op = "validateHabitatDesign",
                        !.result = validateHabitatDesign(
                                       [totalHabitableVolume |-> totalHabitableVolume,
                                        rooms |-> placedRooms],
                                       missionConfig)]
        /\ UNCHANGED <<placedRooms, placedRoomsContainer, canvasInfo, now, missionConfig, pageVars,
                       moduleDimensions, currentValidation, nextRoomId>>

\* the percentages of the category breakdowns handed to generateRecommendations:
\* each of the thresholds 70, 75 and 80, and a percentage below each
ArgPercentages == {69, 70, 75, 80}

\* ScoringSystem.generateRecommendations(categoryScores), which does not look
\* at the layout: it is asked before the layout is built
CallGenerateRecommendations ==
    \E categoryScores \in [Range(CategoryIds) ->
                               [percentage : {Rat(p, 1) : p \in ArgPercentages}]] :
        /\ placedRooms = <<>>
        /\ lastOp' = [NoOp EXCEPT
                        !.op = "generateRecommendations",
                        !.result = [categoryScores |-> categoryScores,
                                    recommendations |->
                                        generateRecommendations(categoryScores)]]
        /\ UNCHANGED <<placedRooms, placedRoomsContainer, canvasInfo, now,
                       missionConfig, pageVars, moduleDimensions, currentValidation,
                       nextRoomId>>

\* time passes between two calls: Date.now() moves on
Tick ==
    /\ now < MaxNow
    /\ now' = now + 1
    /\ UNCHANGED <<placedRooms, placedRoomsContainer, canvasInfo, missionConfig, pageVars,
                   moduleDimensions, currentValidation, nextRoomId, lastOp>>

NextScore ==
    \/ ArgRoom
    \/ CallValidateDesign
    \/ CallCalculateTotalScore
    \/ CallRequiredVolume
    \/ CallValidateHabitatDesign
    \/ CallValidateRoomPlacement
    \/ CallGenerateRecommendations
    \/ Tick

SpecScore == InitScore /\ [][NextScore]_vars

----------------------------------------------------------------------------
(* The overlap test applied to pairs of rectangles *)

\* the rectangles {x, y, width, length} handed to checkRoomOverlap: corners on
\* a grid of 3 by 3 points, sides of 1 or 2
ArgRectangles ==
    [x : 0..2, y : 0..2, width : 1..2, length : 1..2]

\* a pair of rectangles is chosen
InitOverlap ==
    /\ PagesAtLoad
    /\ now = 0
    /\ missionConfig = [missionType |-> "moon", crewSize |-> 4, duration |-> 60]
    /\ moduleDimensions = calculateModuleDimensions(missionConfig)
    /\ placedRooms = <<>>
    /\ placedRoomsContainer = <<>>
    /\ canvasInfo = [roomsCount |-> 0, spaceUsed |-> 0]
    /\ currentValidation = null
    /\ nextRoomId = 1
    /\ \E room1, room2 \in ArgRectangles :
           lastOp = [NoOp EXCEPT !.op = "argument",
                                 !.result = [room1 |-> room1, room2 |-> room2]]

\* RoomsManager.checkRoomOverlap(room1, room2) and, with the arguments
\* swapped, checkRoomOverlap(room2, room1)
CallCheckRoomOverlap ==
    /\ lastOp.op = "argument"
    /\ \E room1 \in {lastOp.result.room1}, room2 \in {lastOp.result.room2} :
           lastOp' = [NoOp EXCEPT
                        !.op = "checkRoomOverlap",
                        !.result = [room1 |-> room1, room2 |-> room2,
                                    overlap |-> checkRoomOverlap(room1, room2),
                                    swapped |-> checkRoomOverlap(room2, room1)]]
    /\ UNCHANGED <<placedRooms, placedRoomsContainer, canvasInfo, now, missionConfig, pageVars,
                   moduleDimensions, currentValidation, nextRoomId>>

NextOverlap == CallCheckRoomOverlap

SpecOverlap == InitOverlap /\ [][NextOverlap]_vars

----------------------------------------------------------------------------
(* Auto-arrangement applied to layouts built by drops *)

MaxArrangeRooms == 3

\* the room types and grid positions of the drops that built the layout
ArrangeTypes == {"crew_quarters", "exercise"}
ArrangePositions == [x : {0, Dm(20)}, y : {0, Dm(20), Dm(40)}]

\* the editor after a sequence of accepted drops, none of which threw: every
\* room passed isValidPosition against the rooms dropped before it
InitArrange ==
    /\ PagesAtLoad
    /\ now = 0
    /\ missionConfig \in EditorConfigs
    /\ moduleDimensions = calculateModuleDimensions(missionConfig)
    /\ \E n \in 1..MaxArrangeRooms :
         \E types \in [1..n -> ArrangeTypes], positions \in [1..n -> ArrangePositions] :
           \E rooms \in {[i \in 1..n |-> [id |-> i, type |-> types[i],
                                          position |-> positions[i]]]} :
             /\ \A i \in 1..n :
                    /\ isValidPosition(types[i], positions[i], SubSeq(rooms, 1, i - 1),
                                       moduleDimensions)
                    /\ ~performRealTimeValidation(SubSeq(rooms, 1, i), missionConfig,
                                                  null).raised
             /\ placedRooms = rooms
             /\ placedRoomsContainer =
                    [i \in 1..n |-> createPlacedRoomElement(rooms[i],
                                                            getRoomById(types[i]))]
             /\ canvasInfo = updateCanvasInfo(rooms, moduleDimensions)
             /\ currentValidation = validateDesign(rooms, missionConfig)
             /\ nextRoomId = n + 1
             /\ lastOp = [NoOp EXCEPT !.op = "drop", !.roomType = types[n],
                                      !.position = positions[n], !.valid = TRUE]

NextArrange == AutoArrange

SpecArrange == InitArrange /\ [][NextArrange]_vars

----------------------------------------------------------------------------
(* Navigation between the pages, and the structure page *)

\* the state that app.js, structure.js and MissionConfig.saveConfig act on
Site ==
    [appState |-> appState, structureState |-> structureState,
     configuration |-> configuration, returned |-> FALSE]

\* the state a handler leaves, with what it was called with and what it returned
Leave(site, op, argument) ==
    /\ appState' = site.appState
    /\ structureState' = site.structureState
    /\ configuration' = site.configuration
    /\ lastOp' = [NoOp EXCEPT !.op = op,
                              !.result = [argument |-> argument,
                                          returned |-> site.returned]]
    /\ UNCHANGED <<editorVars, configState>>

\* page ids handed to showPage: the four pages and one that has no element
ArgPageIds == PageIds \cup {"results"}

\* the application after initialize(): the welcome page is shown, either found
\* active in the document or by showPage('welcome'); the Continue button is as
\* the document declares it
InitPages ==
    /\ EditorAtLoad
    /\ configuration = ConfigurationAtLoad
    /\ configState = ConfigStateAtLoad
    /\ appState \in {AppStateAtLoad, [AppStateAtLoad EXCEPT !.history = <<"welcome">>]}
    /\ structureState \in
           {[StructureStateAtLoad EXCEPT !.continueDisabled = d] : d \in BOOLEAN}
    /\ lastOp = NoOp

\* SpaceArchitects.showPage(pageId), as a navigateToPage event, a popstate
\* event, the start button and the public API call it
ShowPage ==
    \E pageId \in ArgPageIds :
        /\ pageId \in PageIds => Len(appState.history) < MaxHistory
        /\ pageId = "structure" =>
               structureState.listeners + structureState.timers < MaxListeners
        /\ Leave(showPage(Site, pageId), "showPage", pageId)

\* the callback of initializeStructurePage: StructurePage.loadStructureState()
\* and StructurePage.initialize(), whose setupModuleSelection and
\* setupNavigation add one more listener to each button
StructurePageTimer ==
    /\ structureState.timers > 0
    /\ LET loaded == loadStructureState(structureState)
       IN  Leave([Site EXCEPT
                    !.structureState = [loaded EXCEPT !.timers = @ - 1,
                                                      !.listeners = @ + 1]],
                 "initialize", "structure")

\* a click on a structure-select button: every listener calls
\* selectStructureType(moduleType), and every call after the first returns at
\* the test for the same type
SelectStructureType ==
    \E moduleType \in StructureTypes :
        /\ appState.currentPage = "structure"
        /\ structureState.listeners > 0
        /\ Leave([Site EXCEPT !.structureState = selectStructureType(@, moduleType)],
                 "selectStructureType", moduleType)

\* a click on the Continue button, which a disabled button does not deliver
ClickContinue ==
    /\ appState.currentPage = "structure"
    /\ structureState.listeners > 0
    /\ ~structureState.continueDisabled
    /\ Len(appState.history) + structureState.listeners <= MaxHistory
    /\ Leave(Dispatch(Site, "continue", structureState.listeners), "continue", "")

\* a click on the Back button
ClickBack ==
    /\ appState.currentPage = "structure"
    /\ structureState.listeners > 0
    /\ Len(appState.history) + structureState.listeners <= MaxHistory
    /\ Leave(Dispatch(Site, "back", structureState.listeners), "back", "")

NextPages ==
    \/ ShowPage
    \/ StructurePageTimer
    \/ SelectStructureType
    \/ ClickContinue
    \/ ClickBack

SpecPages == InitPages /\ [][NextPages]_vars

----------------------------------------------------------------------------
(* The mission configuration applied to updates and stored items *)

\* a key that an argument object does not hold
absent == [absent |-> TRUE]

\* the values tried for each key of newConfig: in range, out of range, of the
\* wrong type, undefined, or no such key
ArgFieldValues ==
    [missionType |-> {absent, Str("mars"), Str("venus")},
     crewSize |-> {absent, Num(6), Num(7), Str("4"), NaNValue},
     duration |-> {absent, Num(180), Num(45)},
     moduleType |-> {absent, undefined}]

\* the arguments of updateConfig: objects with some of the keys, null and
\* undefined
ArgConfigs ==
    {[k \in {j \in DOMAIN f : f[j] # absent} |-> f[k]] :
        f \in [missionType : ArgFieldValues.missionType,
               crewSize : ArgFieldValues.crewSize,
               duration : ArgFieldValues.duration,
               moduleType : ArgFieldValues.moduleType]}
    \cup {null, undefined}

\* what localStorage holds under 'spaceArchitects_config' when the page is
\* opened: nothing, a text that is empty or no JSON, or the JSON text of a value
StoredItems ==
    {null, [text |-> ""], [text |-> "{crewSize:"],
     [json |-> [crewSize |-> Num(9)]],
     [json |-> [missionType |-> Str("mars"), crewSize |-> Str("4"),
                duration |-> Num(30)]],
     [json |-> [duration |-> null]],
     [json |-> Num(5)],
     [json |-> null]}

\* the module is loaded; the storage is as earlier sessions left it and either
\* accepts writes or refuses them
InitConfig ==
    /\ EditorAtLoad
    /\ appState = AppStateAtLoad
    /\ structureState = StructureStateAtLoad
    /\ configState = ConfigStateAtLoad
    /\ \E item \in StoredItems, writable \in BOOLEAN :
           configuration = [ConfigurationAtLoad EXCEPT !.storage = item,
                                                       !.writable = writable]
    /\ lastOp = NoOp

\* MissionConfig.updateConfig(newConfig)
UpdateConfig ==
    \E newConfig \in ArgConfigs :
        /\ configuration' = updateConfiguration(configuration, newConfig)
        /\ lastOp' = [NoOp EXCEPT !.op = "updateConfig",
                                  !.result = [argument |-> newConfig]]
        /\ UNCHANGED <<editorVars, appState, structureState, configState>>

\* MissionConfig.loadConfig()
LoadConfig ==
    /\ configuration' = loadConfig(configuration)
    /\ lastOp' = [NoOp EXCEPT !.op = "loadConfig",
                              !.result = [argument |-> configuration.storage]]
    /\ UNCHANGED <<editorVars, appState, structureState, configState>>

NextConfig == UpdateConfig \/ LoadConfig

SpecConfig == InitConfig /\ [][NextConfig]_vars

----------------------------------------------------------------------------
(* The retry loop of initializeConfigPage (configuration.js) *)

\* findAndSetupElements() with the two essential elements found or not:
\* when both are there the listeners are set up (setupEventListeners)
findAndSetupElements(c, missionTypeSelect, crewSizeSlider) ==
    IF ~missionTypeSelect \/ ~crewSizeSlider
    THEN [c EXCEPT !.attempts = @ + 1]
    ELSE [c EXCEPT !.attempts = @ + 1, !.setups = @ + 1, !.listeners = @ + 1]

\* tryInitialize with the test retryCount <= maxRetries
tryInitializeOnceMore(c, missionTypeSelect, crewSizeSlider) ==
    LET tried == findAndSetupElements(c, missionTypeSelect, crewSizeSlider)
        elementsFound == missionTypeSelect /\ crewSizeSlider
        retryCount == c.retryCount + 1
    IN  IF elementsFound THEN [tried EXCEPT !.timer = FALSE]
        ELSE IF retryCount <= maxRetries
             THEN [tried EXCEPT !.retryCount = retryCount, !.timer = TRUE]
             ELSE [tried EXCEPT !.retryCount = retryCount, !.timer = FALSE,
                                !.failed = TRUE]

\* tryInitialize() of one call of initializeConfigPage
tryInitialize(c, missionTypeSelect, crewSizeSlider) ==
    LET tried == findAndSetupElements(c, missionTypeSelect, crewSizeSlider)
        elementsFound == missionTypeSelect /\ crewSizeSlider
        retryCount == c.retryCount + 1
    IN  IF elementsFound THEN [tried EXCEPT !.timer = FALSE]
        ELSE IF retryCount < maxRetries
             THEN [tried EXCEPT !.retryCount = retryCount, !.timer = TRUE]
             ELSE [tried EXCEPT !.retryCount = retryCount, !.timer = FALSE,
                                !.failed = TRUE]

\* the module is loaded, no call of initializeConfigPage was made
InitRetry ==
    /\ EditorAtLoad
    /\ PagesAtLoad
    /\ lastOp = NoOp

\* MissionConfig.initializeConfigPage(): a call starts with retryCount = 0 and
\* makes its first attempt at once; the calls are followed one after the
\* other, each with the counters of its own closure
InitializeConfigPage ==
    /\ ~configuration.timer
    /\ configuration.calls < MaxCalls
    /\ \E missionTypeSelect, crewSizeSlider \in BOOLEAN :
           /\ configuration' =
                  tryInitialize([configuration EXCEPT
                                    !.calls = @ + 1, !.retryCount = 0,
                                    !.attempts = 0, !.setups = 0,
                                    !.failed = FALSE],
                                missionTypeSelect, crewSizeSlider)
           /\ lastOp' = [NoOp EXCEPT
                           !.op = "initializeConfigPage",
                           !.result = [missionTypeSelect |-> missionTypeSelect,
                                       crewSizeSlider |-> crewSizeSlider]]
    /\ UNCHANGED <<editorVars, appState, structureState, configState>>

\* the callback of setTimeout(tryInitialize, 200)
RetryTimer ==
    /\ configuration.timer
    /\ \E missionTypeSelect, crewSizeSlider \in BOOLEAN :
           /\ configuration' =
                  tryInitialize(configuration, missionTypeSelect, crewSizeSlider)
           /\ lastOp' = [NoOp EXCEPT
                           !.op = "tryInitialize",
                           !.result = [missionTypeSelect |-> missionTypeSelect,
                                       crewSizeSlider |-> crewSizeSlider]]
    /\ UNCHANGED <<editorVars, appState, structureState, configState>>

NextRetry == InitializeConfigPage \/ RetryTimer

SpecRetry == InitRetry /\ [][NextRetry]_vars

\* a timer that was set fires
SpecRetryFair == SpecRetry /\ WF_vars(RetryTimer)

----------------------------------------------------------------------------
(* The module selection of the configuration page as a state machine *)

\* selectModule(moduleType, button)
selectModule(selectedModules, moduleType) ==
    [selectedModules EXCEPT ![moduleType] = [selected |-> TRUE, quantity |-> 1]]

\* increaseModuleQuantity(moduleType)
increaseModuleQuantity(selectedModules, moduleType) ==
    IF selectedModules[moduleType].quantity < 5
    THEN [selectedModules EXCEPT ![moduleType].quantity = @ + 1]
    ELSE selectedModules

\* deselectModule(moduleType)
deselectModule(selectedModules, moduleType) ==
    [selectedModules EXCEPT ![moduleType] = [selected |-> FALSE, quantity |-> 0]]

\* decreaseModuleQuantity(moduleType)
decreaseModuleQuantity(selectedModules, moduleType) ==
    LET currentQty == selectedModules[moduleType].quantity
    IN  IF currentQty > 1
        THEN [selectedModules EXCEPT ![moduleType].quantity = @ - 1]
        ELSE IF currentQty = 1 THEN deselectModule(selectedModules, moduleType)
        ELSE selectedModules

\* one listener of setupModuleSelection handling a click on a button of the
\* class and action given
clickListener(selectedModules, button, moduleType) ==
    CASE button = "select" -> selectModule(selectedModules, moduleType)
      [] button = "plus" -> increaseModuleQuantity(selectedModules, moduleType)
      [] button = "minus" -> decreaseModuleQuantity(selectedModules, moduleType)

\* a click on the document reaches every listener that setupModuleSelection
\* added, each with the same event target
RECURSIVE DispatchClick(_, _, _, _)
DispatchClick(selectedModules, button, moduleType, listeners) ==
    IF listeners = 0 THEN selectedModules
    ELSE DispatchClick(clickListener(selectedModules, button, moduleType),
                       button, moduleType, listeners - 1)

InitModules ==
    /\ EditorAtLoad
    /\ PagesAtLoad
    /\ lastOp = NoOp

\* MissionConfig.initializeConfigPage() of the configuration page:
\* setupModuleSelection adds one more click listener to the document
InitializeModuleSelection ==
    /\ configState.listeners < MaxClickListeners
    /\ configState' = [configState EXCEPT !.listeners = @ + 1]
    /\ lastOp' = [NoOp EXCEPT !.op = "initializeConfigPage"]
    /\ UNCHANGED <<editorVars, appState, structureState, configuration>>

\* a click on a button of a module card: the Select button is there while the
\* module is not selected, the quantity buttons while it is
Click(button, moduleType) ==
    /\ configState.listeners > 0
    /\ configState.selectedModules[moduleType].selected = (button # "select")
    /\ configState' =
           [configState EXCEPT
              !.selectedModules =
                  DispatchClick(@, button, moduleType, configState.listeners)]
    /\ lastOp' = [NoOp EXCEPT !.op = button, !.roomType = moduleType]
    /\ UNCHANGED <<editorVars, appState, structureState, configuration>>

ClickSelect == \E moduleType \in ModuleTypes : Click("select", moduleType)

ClickPlus == \E moduleType \in ModuleTypes : Click("plus", moduleType)

ClickMinus == \E moduleType \in ModuleTypes : Click("minus", moduleType)

NextModules ==
    \/ InitializeModuleSelection
    \/ ClickSelect
    \/ ClickPlus
    \/ ClickMinus

SpecModules == InitModules /\ [][NextModules]_vars

----------------------------------------------------------------------------
(* Properties of the placement gate (under Spec) *)

\* the bounds of a room of the given type at the given position: position
\* plus catalog width and length
Bounds(roomType, position) ==
    [left |-> position.x, top |-> position.y,
     right |-> position.x + ROOM_CATALOG[roomType].dimensions.width,
     bottom |-> position.y + ROOM_CATALOG[roomType].dimensions.length]

\* two bounds share interior points
BoundsOverlap(a, b) ==
    /\ a.left < b.right /\ b.left < a.right
    /\ a.top < b.bottom /\ b.top < a.bottom

\* the candidate (roomType, position) overlaps a room of the layout
CandidateOverlaps(roomType, position, layout) ==
    /\ roomType \in RoomTypes
    /\ \E i \in DOMAIN layout :
           BoundsOverlap(Bounds(roomType, position),
                         Bounds(layout[i].type, layout[i].position))

\* the candidate is not fully inside the module footprint
OutsideModule(roomType, position) ==
    \/ Bounds(roomType, position).left < 0
    \/ Bounds(roomType, position).top < 0
    \/ Bounds(roomType, position).right > moduleDimensions.width
    \/ Bounds(roomType, position).bottom > moduleDimensions.length

\* C1: no two rooms of editorState.placedRooms have overlapping bounds, after
\* any sequence of drops, removals and clears (and auto-arrangements)
C1_NonOverlap ==
    \A i, j \in DOMAIN placedRooms :
        i # j => ~BoundsOverlap(Bounds(placedRooms[i].type, placedRooms[i].position),
                                Bounds(placedRooms[j].type, placedRooms[j].position))

\* C1 witness: a drop was accepted next to a placed room, the two rooms
\* sharing an edge
C1_TwoRoomsSideBySide ==
    /\ lastOp.op = "drop" /\ lastOp.valid
    /\ \E i, j \in DOMAIN placedRooms :
           /\ i # j
           /\ Bounds(placedRooms[i].type, placedRooms[i].position).right
                  = Bounds(placedRooms[j].type, placedRooms[j].position).left
           /\ placedRooms[i].position.y = placedRooms[j].position.y

\* C2: every candidate whose bounds overlap a placed room is reported invalid,
\* by the drop handler and by validateRoomPlacement alike, and the layout is
\* the same after the attempt as before it
C2_HardGateRejection ==
    [][(/\ lastOp'.op \in {"drop", "validateRoomPlacement"}
        /\ CandidateOverlaps(lastOp'.roomType, lastOp'.position, placedRooms))
       => (~lastOp'.valid /\ placedRooms' = placedRooms)]_vars

\* C3: a dropped candidate that is not fully inside the module is rejected and
\* the layout is unchanged; a candidate inside the module, flush with its
\* edges or not, that overlaps no room is accepted
C3_BoundsGate ==
    [][(lastOp'.op = "drop" /\ lastOp'.roomType \in RoomTypes)
       => /\ OutsideModule(lastOp'.roomType, lastOp'.position)
                => (~lastOp'.valid /\ placedRooms' = placedRooms)
          /\ (/\ ~OutsideModule(lastOp'.roomType, lastOp'.position)
              /\ ~CandidateOverlaps(lastOp'.roomType, lastOp'.position, placedRooms))
                => (lastOp'.valid /\ Len(placedRooms') = Len(placedRooms) + 1)]_vars

\* C3 witness: a drop beyond the module was rejected while a room placed
\* flush with the right edge of the module is in the layout
C3_RejectedOutsideWithFlushRoom ==
    /\ lastOp.op = "drop" /\ lastOp.roomType \in RoomTypes /\ ~lastOp.valid
    /\ OutsideModule(lastOp.roomType, lastOp.position)
    /\ \E i \in DOMAIN placedRooms :
           Bounds(placedRooms[i].type, placedRooms[i].position).right
               = moduleDimensions.width

\* C5: in every state the room list, the rendered elements, the stored
\* validation result and the canvas info describe the same layout
C5_NoPartialUpdate ==
    /\ canvasInfo.roomsCount = Len(placedRooms)
    /\ Len(placedRoomsContainer) = Len(placedRooms)
    /\ \A i \in DOMAIN placedRooms :
           /\ placedRoomsContainer[i].roomId = placedRooms[i].id
           /\ placedRoomsContainer[i].left = moduleOffset + placedRooms[i].position.x
           /\ placedRoomsContainer[i].top = moduleOffset + placedRooms[i].position.y
    /\ currentValidation.requirements["req-quarters"].current
           = Cardinality({i \in DOMAIN placedRooms :
                             placedRooms[i].type = "crew_quarters"})

----------------------------------------------------------------------------
(* Properties of validation and scoring (under SpecScore) *)

\* C4: validateDesign and calculateTotalScore run all their checks to
\* completion on every layout of catalog rooms and every configuration with
\* crewSize >= 1: no call ends with an exception
C4_ScoringNeverRaises ==
    lastOp.op \in {"validateDesign", "calculateTotalScore"} => ~lastOp.raised

\* C6: on an empty layout the overall score is 0 and every requirement has
\* passed = false, in the validation report and in the total score alike
C6_ZeroLayout ==
    (placedRooms = <<>> /\ missionConfig.crewSize >= 1)
    => /\ lastOp.op = "validateDesign"
            => /\ ~lastOp.raised
               /\ lastOp.result.overallCompliance = 0
               /\ \A id \in Range(RuleIds) : ~lastOp.result.requirements[id].passed
       /\ lastOp.op = "calculateTotalScore"
            => /\ ~lastOp.raised
               /\ lastOp.result.totalScore = Rat(0, 1)
               /\ lastOp.result.percentage = Rat(0, 1)

\* the required room types the essential-rooms check is said to range over
SevenEssentialTypes ==
    {"hygiene", "galley", "diningroom", "exercise", "workstation", "medical",
     "storage"}

\* C7: the essential-rooms requirement scores weight * present / 7 over the
\* seven types hygiene, galley, diningroom, exercise, workstation, medical and
\* storage, and passes exactly when all seven are present
C7_EssentialRooms ==
    (lastOp.op = "validateDesign" /\ ~lastOp.raised)
    => \E present \in {Cardinality(SevenEssentialTypes \cap placedTypes(placedRooms))} :
           /\ RatEq(lastOp.result.requirements["req-essential"].score,
                    Rat(RuleWeight("req-essential") * present, 7))
           /\ lastOp.result.requirements["req-essential"].passed = (present = 7)

\* C8: for a crew of at least 1, with perPerson = total room volume * 0.70 /
\* crewSize, the volume requirement passes iff perPerson >= required and scores
\* min(25, 25 * perPerson / required)
C8_VolumePerPerson ==
    (missionConfig.crewSize >= 1 /\ lastOp.op = "validateDesign" /\ ~lastOp.raised)
    => \E perPerson \in {Rat(totalVolume(placedRooms) * 70,
                             1000 * 100 * missionConfig.crewSize)} :
         \E required \in {lastOp.result.requirements["req-volume"].required} :
           /\ lastOp.result.requirements["req-volume"].passed
                  = RatLeq(Rat(required, 1), perPerson)
           /\ RatEq(lastOp.result.requirements["req-volume"].score,
                    RatMin(Rat(25, 1), RatMul(Rat(25, required), perPerson)))

\* the required volume per person (m^3) by mission duration: up to 30 days 20,
\* up to 90 days 25, up to 180 days 30, beyond that 40
TierVolume(duration) ==
    IF duration <= 30 THEN 20
    ELSE IF duration <= 90 THEN 25
    ELSE IF duration <= 180 THEN 30
    ELSE 40

\* C9: every component that computes the required volume per person gives
\* the tier of the mission duration, so all components agree
C9_DurationTiers ==
    lastOp.op = "requiredVolume"
    => \E tier \in {TierVolume(lastOp.result.duration)} :
           /\ lastOp.result.structure = tier
           /\ lastOp.result.configuration = tier
           /\ RatEq(lastOp.result.standards, Rat(tier * lastOp.result.crewSize, 1))
           /\ lastOp.result.validation = tier
           /\ lastOp.result.scoring = tier

\* C10: for a crew of at least 1, with count the number of crew_quarters
\* rooms, the crew quarters requirement passes iff count >= crewSize and scores
\* min(20, 20 * count / crewSize), in the rule itself, in the validation
\* report and in the NASA compliance factor of the total score
C10_CrewQuarters ==
    missionConfig.crewSize >= 1 =>
    \E count \in {Cardinality({i \in DOMAIN placedRooms :
                                  placedRooms[i].type = "crew_quarters"})} :
      \E claimed \in {RatMin(Rat(20, 1), Rat(20 * count, missionConfig.crewSize))} :
        /\ crewQuarters(placedRooms, missionConfig).passed
               = (count >= missionConfig.crewSize)
        /\ RatEq(crewQuarters(placedRooms, missionConfig).score, claimed)
        /\ (lastOp.op = "validateDesign" /\ ~lastOp.raised)
             => /\ lastOp.result.requirements["req-quarters"].passed
                       = (count >= missionConfig.crewSize)
                /\ RatEq(lastOp.result.requirements["req-quarters"].score, claimed)
        /\ (lastOp.op = "calculateTotalScore" /\ ~lastOp.raised)
             => RatEq(lastOp.result.categories["nasaCompliance"].factors.quarters,
                      claimed)

\* C10 witness: a crew of 4 with 2 crew quarters was validated: score 10,
\* passed = false
C10_TwoQuartersForFour ==
    /\ lastOp.op = "validateDesign" /\ ~lastOp.raised
    /\ missionConfig.crewSize = 4
    /\ CountType(placedRooms, "crew_quarters") = 2
    /\ lastOp.result.requirements["req-quarters"].score = Rat(10, 1)
    /\ ~lastOp.result.requirements["req-quarters"].passed

\* the fraction of the rooms of the layout that lie within 15 m of the nearest
\* medical bay
AccessFraction(rooms) ==
    Rat(Cardinality({i \in DOMAIN rooms :
            \E j \in DOMAIN rooms :
                /\ rooms[j].type = "medical"
                /\ calculateDistance(rooms[i].position, rooms[j].position).sq
                       <= (accessMaxDistance * canvasScale)
                              * (accessMaxDistance * canvasScale)}),
        Len(rooms))

\* C11: without a medical room the emergency access requirement scores 0 and
\* fails; with one it scores 10 * f and passes iff f >= 0.9, f the fraction of
\* the rooms within 15 m of the nearest medical bay
C11_EmergencyAccess ==
    lastOp.op = "validateDesign"
    => /\ ~lastOp.raised
       /\ IF CountType(placedRooms, "medical") = 0
          THEN /\ RatEq(lastOp.result.requirements["req-access"].score, Rat(0, 1))
               /\ ~lastOp.result.requirements["req-access"].passed
          ELSE /\ RatEq(lastOp.result.requirements["req-access"].score,
                        RatMul(Rat(10, 1), AccessFraction(placedRooms)))
               /\ lastOp.result.requirements["req-access"].passed
                      = RatLeq(Rat(9, 10), AccessFraction(placedRooms))

\* C12: for a mission configuration (a crew of at least 1), the overall
\* compliance is an integer from 0 to 100 and every requirement scores between
\* 0 and its weight; likewise the percentage of the total score and the
\* weighted score of every category
C12_ScoreRange ==
    missionConfig.crewSize >= 1 =>
    /\ (lastOp.op = "validateDesign" /\ ~lastOp.raised)
         => /\ lastOp.result.overallCompliance \in 0..100
            /\ lastOp.result.overallCompliance
                   = MathRound(100 * lastOp.result.score.n,
                               SeqSum([i \in DOMAIN RuleIds |-> RuleWeight(RuleIds[i])])
                                   * lastOp.result.score.d)
            /\ \A id \in Range(RuleIds) :
                   /\ RatLeq(Rat(0, 1), lastOp.result.requirements[id].score)
                   /\ RatLeq(lastOp.result.requirements[id].score,
                             Rat(RuleWeight(id), 1))
    /\ (lastOp.op = "calculateTotalScore" /\ ~lastOp.raised)
         => /\ lastOp.result.percentage \in {Rat(p, 1) : p \in 0..100}
            /\ lastOp.result.totalScore \in {Rat(p, 1) : p \in 0..100}
            /\ \A category \in Range(CategoryIds) :
                   /\ RatLeq(Rat(0, 1), lastOp.result.categories[category].weighted)
                   /\ RatLeq(lastOp.result.categories[category].weighted,
                             Rat(CategoryWeight(category), 1))

\* C12 witness: a layout with more crew quarters than crew was validated and
\* the crew quarters requirement scored its full weight
C12_MoreQuartersThanCrew ==
    /\ lastOp.op = "validateDesign" /\ ~lastOp.raised
    /\ missionConfig.crewSize >= 1
    /\ CountType(placedRooms, "crew_quarters") > missionConfig.crewSize
    /\ lastOp.result.requirements["req-quarters"].score = Rat(20, 1)
    /\ lastOp.result.overallCompliance > 0

\* C13: a second validateDesign, or a second calculateTotalScore, on the same
\* unchanged layout and mission configuration returns a report equal to the
\* first in every field, whenever it is made
C13_IdempotentScoring ==
    [][(/\ lastOp.op \in {"validateDesign", "calculateTotalScore"}
        /\ lastOp'.op = lastOp.op
        /\ placedRooms' = placedRooms
        /\ missionConfig' = missionConfig)
       => lastOp'.result = lastOp.result]_vars

\* C14: after every layout mutation (an accepted drop, a removal, a confirmed
\* clear, an auto-arrangement) the stored validation result is the result of
\* validateDesign on the current layout and mission configuration
C14_RescoredOnMutation ==
    (\/ lastOp.op = "drop" /\ lastOp.valid
     \/ lastOp.op \in {"removeRoom", "clearAllRooms", "autoArrangeRooms"})
    => currentValidation = validateDesign(placedRooms, missionConfig)

----------------------------------------------------------------------------
(* Properties of the placement rules (under SpecScore) *)

\* the messages of the given kind that name the given room type
MessagesAbout(messages, kind, other) ==
    {k \in DOMAIN messages : messages[k].message = kind /\ messages[k].other = other}

\* the squares of the distances from the candidate position to the rooms of
\* the given type in the layout
SqDistancesTo(position, other) ==
    {calculateDistance(position, placedRooms[i].position).sq :
        i \in {j \in DOMAIN placedRooms : placedRooms[j].type = other}}

\* C15: for each minDistance rule of the candidate whose referenced type is
\* in the layout, one "too close" warning and 5 points off iff the nearest
\* room of that type is closer than the threshold, however many are too close
C15_MinDistanceRule ==
    (lastOp.op = "validateRoomPlacement" /\ lastOp.valid)
    => \A e \in Range(ROOM_CATALOG[lastOp.roomType].requirements.minDistance) :
         \E warned \in {MessagesAbout(lastOp.result.warnings, "Too close to", e[1])} :
           /\ Cardinality(warned)
                  = IF \E sq \in SqDistancesTo(lastOp.position, e[1]) : sq < e[2] * e[2]
                    THEN 1 ELSE 0
           /\ \A k \in warned : lastOp.result.warnings[k].points = -5

\* C16: for each maxDistance rule of the candidate, one "too far" warning and
\* 8 points off when the closest room of the referenced type is farther than
\* the threshold, and also when the layout has no room of that type
C16_MaxDistanceRule ==
    (lastOp.op = "validateRoomPlacement" /\ lastOp.valid)
    => \A e \in Range(ROOM_CATALOG[lastOp.roomType].requirements.maxDistance) :
         \E warned \in {MessagesAbout(lastOp.result.warnings, "Too far from", e[1])} :
           /\ Cardinality(warned)
                  = IF \A sq \in SqDistancesTo(lastOp.position, e[1]) : sq > e[2] * e[2]
                    THEN 1 ELSE 0
           /\ \A k \in warned : lastOp.result.warnings[k].points = -8

\* twice the centre of the rectangle of a room of the given type at the given
\* position
CentreTimes2(roomType, position) ==
    [x |-> 2 * position.x + ROOM_CATALOG[roomType].dimensions.width,
     y |-> 2 * position.y + ROOM_CATALOG[roomType].dimensions.length]

\* the layout has a room of the given type whose centre is at most 3.0 m from
\* the centre of the candidate
CentreWithinBonusRange(roomType, position, other) ==
    \E i \in DOMAIN placedRooms :
        /\ placedRooms[i].type = other
        /\ calculateDistance(CentreTimes2(roomType, position),
                             CentreTimes2(other, placedRooms[i].position)).sq
               <= (2 * Dm(30)) * (2 * Dm(30))

\* C17: for each adjacencyBonus rule of the candidate, the bonus is added once
\* and one suggestion is made iff a room of the referenced type has its centre
\* at most 3.0 m from the centre of the candidate
C17_AdjacencyBonus ==
    (lastOp.op = "validateRoomPlacement" /\ lastOp.valid)
    => \A e \in Range(ROOM_CATALOG[lastOp.roomType].requirements.adjacencyBonus) :
         \E praised \in {MessagesAbout(lastOp.result.suggestions,
                                       "Great placement near", e[1])} :
           /\ Cardinality(praised)
                  = IF CentreWithinBonusRange(lastOp.roomType, lastOp.position, e[1])
                    THEN 1 ELSE 0
           /\ \A k \in praised : lastOp.result.suggestions[k].points = e[2]

----------------------------------------------------------------------------
(* Single-instance room types (under Spec) *)

\* C18: once the layout holds a room of a type that does not allow multiple
\* instances, every further placement attempt of that type is reported
\* invalid and the layout keeps exactly one room of that type
C18_SingleInstance ==
    [][(/\ lastOp'.op \in {"drop", "validateRoomPlacement"}
        /\ lastOp'.roomType \in RoomTypes
        /\ ~multipleAllowed(lastOp'.roomType)
        /\ CountType(placedRooms, lastOp'.roomType) >= 1)
       => /\ ~lastOp'.valid
          /\ placedRooms' = placedRooms
          /\ CountType(placedRooms', lastOp'.roomType) = 1]_vars

----------------------------------------------------------------------------
(* Noise separation and kitchen/hygiene adjacency (under SpecScore) *)

\* the layout has an exercise room and a crew quarters closer than 3.0 m
NoisyPairTooClose ==
    \E i, j \in DOMAIN placedRooms :
        /\ placedRooms[i].type = "exercise"
        /\ placedRooms[j].type = "crew_quarters"
        /\ calculateDistance(placedRooms[i].position, placedRooms[j].position).sq
               < Dm(30) * Dm(30)

\* C19: noise separation is pass/fail: full credit (25) when every exercise
\* room is at least 3.0 m from every crew quarters, exactly 3.0 m included,
\* and zero as soon as one pair is closer; never a partial value
C19_NoiseSeparation ==
    (lastOp.op = "calculateTotalScore" /\ ~lastOp.raised)
    => lastOp.result.categories["crewWellbeing"].factors.noiseIsolation
           = IF NoisyPairTooClose THEN 0 ELSE 25

\* two bounds touch: they share an edge and their projections on the axis
\* along that edge overlap
BoundsTouch(a, b) ==
    \/ /\ (a.right = b.left \/ b.right = a.left)
       /\ a.top < b.bottom /\ b.top < a.bottom
    \/ /\ (a.bottom = b.top \/ b.bottom = a.top)
       /\ a.left < b.right /\ b.left < a.right

\* the layout has a galley and a hygiene station that touch
GalleyTouchesHygiene ==
    \E i, j \in DOMAIN placedRooms :
        /\ placedRooms[i].type = "galley"
        /\ placedRooms[j].type = "hygiene"
        /\ BoundsTouch(Bounds("galley", placedRooms[i].position),
                       Bounds("hygiene", placedRooms[j].position))

\* the requirements of a validation report that are not one of the checks of
\* volume, crew quarters, essential rooms, hygiene stations or emergency access
AdjacencyChecks(report) ==
    DOMAIN report.requirements
        \ {"req-volume", "req-quarters", "req-essential", "req-hygiene", "req-access"}

\* C20: when a galley and a hygiene station of the layout touch, the
\* validation report holds a failed adjacency check; when none touch, no
\* adjacency check of the report is failed
C20_KitchenHygieneAdjacency ==
    (lastOp.op = "validateDesign" /\ ~lastOp.raised)
    => IF GalleyTouchesHygiene
       THEN \E id \in AdjacencyChecks(lastOp.result) :
                ~lastOp.result.requirements[id].passed
       ELSE \A id \in AdjacencyChecks(lastOp.result) :
                lastOp.result.requirements[id].passed

----------------------------------------------------------------------------
(* Recommendations (under SpecScore) *)

\* the recommendations a breakdown calls for, in the order of the categories:
\* each category below its threshold, with the priority given for it
RecommendationsFor(categoryScores, thresholds, priorities) ==
    LET Names == [nasaCompliance |-> "NASA Compliance",
                  operationalEfficiency |-> "Operations",
                  crewWellbeing |-> "Wellbeing",
                  resourceOptimization |-> "Resources"]
        Wanted == SelectSeq(CategoryIds,
                            LAMBDA c : /\ c \in DOMAIN thresholds
                                       /\ RatLt(categoryScores[c].percentage,
                                                Rat(thresholds[c], 1)))
    IN [k \in DOMAIN Wanted |-> [category |-> Names[Wanted[k]],
                                priority |-> priorities[Wanted[k]]]]

\* C21 as stated: a recommendation for each category below its threshold
\* (compliance 80, operations 70, wellbeing 75, resources 70), in the order of
\* the categories, the compliance one of priority high and every other one of
\* priority medium
C21_AllOthersMedium ==
    lastOp.op = "generateRecommendations"
    => lastOp.result.recommendations
           = RecommendationsFor(lastOp.result.categoryScores,
                                [nasaCompliance |-> 80, operationalEfficiency |-> 70,
                                 crewWellbeing |-> 75, resourceOptimization |-> 70],
                                [nasaCompliance |-> "high",
                                 operationalEfficiency |-> "medium",
                                 crewWellbeing |-> "medium",
                                 resourceOptimization |-> "medium"])

\* C21: a recommendation is emitted for a category iff its percentage is
\* strictly below its threshold (compliance 80, operations 70, wellbeing 75,
\* resources 70); the recommendations come in the order of the categories,
\* compliance first; the compliance one has priority high, the operations and
\* wellbeing ones medium and the resources one low
C21_RecommendationThresholds ==
    lastOp.op = "generateRecommendations"
    => lastOp.result.recommendations
           = RecommendationsFor(lastOp.result.categoryScores,
                                [nasaCompliance |-> 80, operationalEfficiency |-> 70,
                                 crewWellbeing |-> 75, resourceOptimization |-> 70],
                                [nasaCompliance |-> "high",
                                 operationalEfficiency |-> "medium",
                                 crewWellbeing |-> "medium",
                                 resourceOptimization |-> "low"])

\* a breakdown with compliance and resources below their thresholds and
\* operations and wellbeing exactly at theirs: two recommendations
C21_BelowAndAtThreshold ==
    /\ lastOp.op = "generateRecommendations"
    /\ lastOp.result.categoryScores["nasaCompliance"].percentage = Rat(75, 1)
    /\ lastOp.result.categoryScores["operationalEfficiency"].percentage = Rat(70, 1)
    /\ lastOp.result.categoryScores["crewWellbeing"].percentage = Rat(75, 1)
    /\ lastOp.result.categoryScores["resourceOptimization"].percentage = Rat(69, 1)
    /\ Len(lastOp.result.recommendations) = 2

----------------------------------------------------------------------------
(* The malformed configuration crewSize 0 (under SpecScore) *)

\* the scores, ratios and percentages of a report of validateDesign or of
\* calculateTotalScore
NumbersOf(op, report) ==
    IF op = "validateDesign"
    THEN {report.requirements[id].score : id \in DOMAIN report.requirements}
         \cup {report.requirements["req-volume"].current}
    ELSE {report.totalScore, report.percentage}
         \cup UNION {{report.categories[c].raw, report.categories[c].weighted,
                      report.categories[c].percentage} :
                     c \in DOMAIN report.categories}
         \cup {report.categories["nasaCompliance"].factors[f] :
                  f \in {"volume", "quarters", "hygiene"}}
         \cup {report.categories["crewWellbeing"].factors.privacy}

\* C22: in a report of scoring with crewSize 0, no score, ratio or percentage
\* is Infinity or NaN
C22_CrewSizeZeroGuard ==
    (/\ missionConfig.crewSize = 0
     /\ lastOp.op \in {"validateDesign", "calculateTotalScore"}
     /\ ~lastOp.raised)
    => \A number \in NumbersOf(lastOp.op, lastOp.result) : isFinite(number)

----------------------------------------------------------------------------
(* The overlap test (under SpecOverlap) *)

\* the unit cells of the grid that a rectangle covers
Cells(room) ==
    (room.x .. room.x + room.width - 1) \X (room.y .. room.y + room.length - 1)

\* C23: checkRoomOverlap(a, b) is true iff a and b cover a common cell, i.e.
\* iff neither lies wholly to the left of, to the right of, above or below the
\* other; rectangles that only touch along an edge or at a corner do not
\* overlap; and the result is the same with the arguments swapped
C23_OverlapTest ==
    lastOp.op = "checkRoomOverlap"
    => /\ lastOp.result.overlap
              = (Cells(lastOp.result.room1) \cap Cells(lastOp.result.room2) # {})
       /\ lastOp.result.overlap = lastOp.result.swapped

\* C23 witness: two rectangles that share an edge were tested and found not to
\* overlap
C23_TouchingAlongAnEdge ==
    /\ lastOp.op = "checkRoomOverlap"
    /\ lastOp.result.room1.x + lastOp.result.room1.width = lastOp.result.room2.x
    /\ lastOp.result.room1.y = lastOp.result.room2.y
    /\ ~lastOp.result.overlap

----------------------------------------------------------------------------
(* Room types that are not in the catalog (under Spec) *)

\* C24: a drop of a text that is no catalog id, and a placement check of such
\* an id, raise no exception and leave the layout unchanged; the lookup finds
\* nothing and the placement check answers valid = false with a reason
C24_UnknownRoomType ==
    [][(/\ lastOp'.op \in {"drop", "validateRoomPlacement"}
        /\ lastOp'.roomType \notin RoomTypes)
       => /\ ~lastOp'.raised
          /\ placedRooms' = placedRooms
          /\ getRoomById(lastOp'.roomType) = null
          /\ lastOp'.op = "validateRoomPlacement"
               => lastOp'.result = [raised |-> FALSE, valid |-> FALSE,
                                    reason |-> "Unknown room type"]]_vars

----------------------------------------------------------------------------
(* Auto-arrangement (under SpecArrange) *)

\* the hard-gate conditions of a layout: no two rooms overlap and every room
\* lies inside the module footprint
HardGate(layout) ==
    /\ \A i, j \in DOMAIN layout :
           i # j => ~BoundsOverlap(Bounds(layout[i].type, layout[i].position),
                                   Bounds(layout[j].type, layout[j].position))
    /\ \A i \in DOMAIN layout : ~OutsideModule(layout[i].type, layout[i].position)

\* C25: autoArrangeRooms on a layout that satisfies the hard-gate conditions
\* leaves a layout that satisfies them, with the same rooms (ids and types)
C25_AutoArrangePreservesGate ==
    [][(lastOp'.op = "autoArrangeRooms" /\ HardGate(placedRooms))
       => /\ HardGate(placedRooms')
          /\ [i \in DOMAIN placedRooms' |-> <<placedRooms'[i].id, placedRooms'[i].type>>]
                 = [i \in DOMAIN placedRooms |-> <<placedRooms[i].id,
                                                   placedRooms[i].type>>]]_vars

----------------------------------------------------------------------------
(* The structure page (under SpecPages) *)

\* C26: once a structure type is selected (selectStructureType) the Continue
\* control is enabled, and a Continue click shows the editor page exactly when
\* a structure type is selected: with none selected it does not navigate.
C26_EditorReachability ==
    [][/\ lastOp'.op = "selectStructureType" =>
              ~structureState'.continueDisabled
       /\ lastOp'.op = "continue" =>
              (appState'.currentPage = "editor")
                  = (structureState.selectedStructureType # null)]_vars

\* the Continue button of the structure page never changes the current page
ContinueStaysOnThePage ==
    [][lastOp'.op = "continue" => appState'.currentPage = appState.currentPage]_vars

----------------------------------------------------------------------------
(* Page navigation (under SpecPages) *)

\* C29: showPage with a page id that has no page element returns false and
\* leaves the current page, the active pages and the history as they were;
\* after a showPage that returned true exactly one page is active, it is the
\* page asked for, and appState.currentPage names it (the showPage('config')
\* of the Back button included).
C29_PageNavigationSafety ==
    [][/\ lastOp'.op = "showPage" =>
              IF lastOp'.result.argument \in PageIds
              THEN /\ lastOp'.result.returned
                   /\ Cardinality(appState'.activePages) = 1
                   /\ appState'.activePages = {appState'.currentPage}
                   /\ appState'.currentPage = lastOp'.result.argument
              ELSE /\ ~lastOp'.result.returned
                   /\ appState' = appState
       /\ lastOp'.op = "back" =>
              /\ lastOp'.result.returned
              /\ appState'.activePages = {"config"}
              /\ appState'.currentPage = "config"]_vars

\* showPage('results') was refused while the editor page was shown, after at
\* least two successful navigations
C29_MissingPageRefused ==
    /\ lastOp.op = "showPage"
    /\ lastOp.result.argument = "results"
    /\ ~lastOp.result.returned
    /\ appState.currentPage = "editor"
    /\ appState.activePages = {"editor"}
    /\ Len(appState.history) >= 2

----------------------------------------------------------------------------
(* The mission configuration (under SpecConfig) *)

\* the options of the three validated keys, and their defaults
ConfigOptions ==
    [missionType |-> {Str("moon"), Str("mars")},
     crewSize |-> {Num(2), Num(3), Num(4), Num(5), Num(6)},
     duration |-> {Num(7), Num(30), Num(60), Num(90), Num(180)}]

ConfigDefaults ==
    [missionType |-> Str("moon"), crewSize |-> Num(4), duration |-> Num(60)]

\* the object an updateConfig or loadConfig call merges into the configuration:
\* the argument, or the parsed item; no object for null, undefined, a number,
\* no item, or a text that is no JSON
IncomingOf(op) ==
    IF op.op = "updateConfig" THEN op.result.argument
    ELSE IF "json" \in DOMAIN op.result.argument THEN op.result.argument.json
    ELSE null

\* what a call leaves under key k: the incoming value if the incoming object
\* has the key, the value before the call otherwise
MergedValue(before, incoming, k) ==
    IF DOMAIN incoming \subseteq {"missionType", "crewSize", "duration", "moduleType"}
       /\ k \in DOMAIN incoming
    THEN incoming[k]
    ELSE IF k \in DOMAIN before THEN before[k] ELSE undefined

C27_StoredTextCrewSize ==
    /\ lastOp.op = "loadConfig"
    /\ "json" \in DOMAIN lastOp.result.argument
    /\ lastOp.result.argument.json =
           [missionType |-> Str("mars"), crewSize |-> Str("4"), duration |-> Num(30)]
    /\ configuration.currentConfig.crewSize = Num(4)
    /\ configuration.currentConfig.duration = Num(30)

----------------------------------------------------------------------------
(* The module quantities (under SpecModules) *)

\* C28: every module type has 0 <= quantity <= 5 and selected == (quantity >= 1)
\* after every click and every initializeConfigPage call; a select click leaves
\* quantity 1, a plus click raises the quantity by exactly 1 (unless it is 5),
\* a minus click lowers it by exactly 1, and minus at quantity 1 deselects.
C28_ModuleQuantity ==
    [][/\ \A m \in ModuleTypes :
              /\ configState'.selectedModules[m].quantity \in 0..5
              /\ configState'.selectedModules[m].selected
                     = (configState'.selectedModules[m].quantity >= 1)
       /\ \A m \in ModuleTypes :
              LET quantity == configState.selectedModules[m].quantity
                  after == configState'.selectedModules[m].quantity
                  clicked == lastOp'.roomType = m
              IN  /\ lastOp'.op = "select" /\ clicked => after = 1
                  /\ lastOp'.op = "plus" /\ clicked =>
                         after = IF quantity = 5 THEN 5 ELSE quantity + 1
                  /\ lastOp'.op = "minus" /\ clicked => after = quantity - 1
                  /\ lastOp'.op \in {"select", "plus", "minus"} /\ ~clicked =>
                         after = quantity
                  /\ lastOp'.op = "initializeConfigPage" => after = quantity]_vars

\* the part of C28 that holds with any number of listeners: the range of the
\* quantity and its agreement with the selected flag
ModuleQuantityRange ==
    \A m \in ModuleTypes :
        /\ configState.selectedModules[m].quantity \in 0..5
        /\ configState.selectedModules[m].selected
               = (configState.selectedModules[m].quantity >= 1)

\* with one listener every click changes the quantity of its module by one
SingleListenerClicks ==
    [][configState.listeners = 1 /\ lastOp'.op \in {"plus", "minus"} =>
           \A m \in ModuleTypes :
               LET quantity == configState.selectedModules[m].quantity
                   after == configState'.selectedModules[m].quantity
               IN  IF lastOp'.roomType # m THEN after = quantity
                   ELSE IF lastOp'.op = "minus" THEN after = quantity - 1
                   ELSE after = IF quantity = 5 THEN 5 ELSE quantity + 1]_vars

----------------------------------------------------------------------------
(* The retry loop of initializeConfigPage (under SpecRetryFair) *)

\* a call of initializeConfigPage makes at most maxRetries = 5 attempts; once
\* it has given up it has made 5 attempts, set up nothing and holds no timer;
\* once it has set up the listeners it has done so once and holds no timer
RetryBounded ==
    /\ configuration.attempts <= 5
    /\ configuration.setups <= 1
    /\ configuration.failed =>
           /\ configuration.attempts = 5
           /\ configuration.setups = 0
           /\ ~configuration.timer
    /\ configuration.setups = 1 => ~configuration.timer /\ ~configuration.failed
    /\ configuration.timer => configuration.attempts = configuration.retryCount
    /\ configuration.listeners <= configuration.calls

\* C30: initializeConfigPage terminates: a call that waits for a retry ends
\* with the listeners set up or with the final error; it makes at most 5
\* attempts and then schedules no retry, and when the elements are found on
\* attempt k <= 5 it sets the listeners up exactly once and schedules no
\* further attempt.
C30_BoundedRetry ==
    /\ []RetryBounded
    /\ configuration.timer ~>
           (~configuration.timer /\ (configuration.setups = 1 \/ configuration.failed))

\* the elements were found on the fifth attempt of a call
C30_FoundOnLastAttempt ==
    /\ configuration.attempts = 5
    /\ configuration.setups = 1
    /\ configuration.retryCount = 4
    /\ ~configuration.timer
    /\ ~configuration.failed
    /\ lastOp.op = "tryInitialize"

====
